---- MODULE Spec2Model ----
(***************************************************************************)
(* Reconciliation toolkit of the prometheus-operator (package k8s):        *)
(* the create-or-update protocol under optimistic concurrency, the         *)
(* metadata merge policy and the kind-specific carry-over of fields.       *)
(*                                                                         *)
(* An invocation is a process p: it runs the closure handed to             *)
(* retry.RetryOnConflict, one store call (Get, Create, Update) per step,   *)
(* so that other invocations and other actors of the cluster interleave    *)
(* between the store calls exactly where they can in the program.          *)
(*                                                                         *)
(* Label and annotation maps of the object metadata are functions from a   *)
(* set of keys to values; a nil map and an empty map are the same value    *)
(* there, as mergeMapsByPrefix turns nil into an empty map and             *)
(* Semantic.DeepEqual equates the two.  The annotation map of a pod        *)
(* template keeps the difference: it is the set {} (nil) or {m}.           *)
(***************************************************************************)
EXTENDS Integers, Sequences, FiniteSets, TLC

VARIABLES
  kind,       \* the resource kind all invocations of this behaviour reconcile
  present,    \* names of the objects the store holds
  store,      \* name -> stored object (EmptyObj when not present)
  lastRV,     \* the store's revision counter: the last version token assigned
  pc,         \* process -> "idle" | "off" | "get" | "create" | "update" | "done"
  orig,       \* process -> the desired object as the caller passed it
  desired,    \* process -> the caller's object as the attempts have changed it
  observed,   \* process -> the object returned by the last successful Get
  attempt,    \* process -> number of the running attempt (0 before the call)
  seen,       \* process -> store calls issued in the running attempt
  lastCall,   \* process -> the last store call: operation, payload, answer
  result,     \* process -> the error chain returned to the caller
  extLeft,    \* writes other actors may still perform
  caller,     \* process -> the operation that runs the closure ("" : the kind's own)
  onDeleteFunc, \* process -> the callback given to ForceUpdateStatefulSet, or "nil"
  errDetails, \* process -> ErrStatus.Details of the last store answer: {} is nil
  calls,      \* process -> callback invocations, Delete and Patch calls, in order
  finCall,    \* process -> the last call of a finalizer patch function
  isaPc,      \* IsAllowed: "idle" | "check" | "done"
  isaArgs,    \* IsAllowed: the namespaces and attributes of the call
  isaIter,    \* IsAllowed: <<namespace, attribute, verb>> indexes of the next check
  submitted,  \* IsAllowed: the checks submitted so far with their answers
  missingPermissions, \* IsAllowed: the reasons gathered so far
  isaResult,  \* IsAllowed: the three values returned
  rnCalls,    \* ResourceNamer: per caller, the call made and what it returned
  services,   \* governing services: the selector of each namespace/name, or absent
  gsCall      \* EnsureCustomGoverningService: the last call and what it returned

isaVars == <<isaPc, isaArgs, isaIter, submitted, missingPermissions, isaResult>>

gsVars == <<services, gsCall>>

\* the state of the operations that are not reconcile operations
auxVars == <<finCall, isaVars, rnCalls, gsVars>>

vars == <<kind, present, store, lastRV, pc, orig, desired, observed, attempt,
          seen, lastCall, result, extLeft, caller, onDeleteFunc, errDetails,
          calls, auxVars>>

----------------------------------------------------------------------------
(* Bounds and universes *)

\* retry.DefaultRetry: Steps = 5 (the closure runs at most five times).
DefaultRetrySteps == 5

\* Writes by other actors in one behaviour.
MaxExtWrites == 5

\* Longest owner reference list given to mergeOwnerReferences on its own.
MaxOwners == 2

Procs == {"p1", "p2"}

Kinds == {"Service", "Endpoints", "EndpointSlice", "Secret", "ConfigMap",
          "DaemonSet", "StatefulSet"}

ObjName == "obj"
\* names the store generates for objects created with an empty name
GenNames == {"gen-p1", "gen-p2"}
\* the name of a second object, reconciled next to the first one
OtherName == "obj2"
Names == {ObjName, OtherName} \cup GenNames

KubectlPrefix == "kubectl.kubernetes.io/"

\* a key is <<prefix, rest>>: strings.HasPrefix(k, prefix) reads k[1]
HasPrefix(k, prefix) == prefix = "" \/ k[1] = prefix

AppKey == <<"", "app">>
ExtraKey == <<"", "label">>
RestartKey == <<KubectlPrefix, "restartedAt">>
TestKey == <<"", "test-key">>

MapsOver(keys, vals) == UNION {[d -> vals] : d \in SUBSET keys}

\* error classes of the store's answers
NoErr == "nil"
ErrNotFound == "NotFound"
ErrConflict == "Conflict"
ErrAlreadyExists == "AlreadyExists"
ErrOther == "Other"
ErrInvalid == "Invalid"

IsNotFound(e) == e = ErrNotFound
IsConflict(e) == e = ErrConflict

ImmutUnset == [ClusterIP |-> "", ClusterIPs |-> <<>>, IPFamilies |-> <<>>,
               IPFamilyPolicy |-> "nil"]
ImmutA == [ClusterIP |-> "127.0.0.1", ClusterIPs |-> <<"127.0.0.1", "192.168.0.159">>,
           IPFamilies |-> <<"IPv6">>, IPFamilyPolicy |-> "RequireDualStack"]
ImmutB == [ClusterIP |-> "10.0.0.7", ClusterIPs |-> <<"10.0.0.7">>,
           IPFamilies |-> <<"IPv4">>, IPFamilyPolicy |-> "SingleStack"]

\* Controller *bool of an owner reference: nil is {}, a pointer is its
\* address and the value behind it.  Address 0 is the caller's own (and the
\* form the store keeps); the pointers of an object decoded from the answer
\* to the Get of attempt n have the address n.
Pointer(val) == {[at |-> 0, val |-> val]}

\* owner references: the map key of mergeOwnerReferences is the struct, so
\* two references are the same key when every field is equal, and pointer
\* fields are equal when they hold the same address
RefA == [name |-> "prom", uid |-> "u1", controller |-> Pointer(TRUE)]
RefB == [name |-> "prom", uid |-> "u2", controller |-> Pointer(TRUE)]
RefC == [name |-> "other", uid |-> "u3", controller |-> {}]

\* the owner references with their pointers at the address n
DecodedRefs(refs, n) ==
  [i \in DOMAIN refs |-> [refs[i] EXCEPT !.controller = {[c EXCEPT !.at = n] : c \in @}]]

EmptyObj == [name |-> "", rv |-> 0, labels |-> <<>>, annotations |-> <<>>,
             owners |-> <<>>, immut |-> ImmutUnset, data |-> "",
             tmplAnn |-> {}, finalizers |-> <<>>]

\* an object decoded from an answer of the store: its pointers are new, at
\* the address n
Decoded(obj, n) == [obj EXCEPT !.owners = DecodedRefs(@, n)]

Range(f) == {f[i] : i \in DOMAIN f}

----------------------------------------------------------------------------
(* Metadata merge policy *)

\* mergeMapsByPrefix: every entry of `from` whose key has the prefix is
\* written into `to` (nil maps are taken as empty); `to` is returned.
mergeMapsByPrefix(from, to, prefix) ==
  LET moved == {k \in DOMAIN from : HasPrefix(k, prefix)}
  IN [k \in (DOMAIN to) \cup moved |-> IF k \in moved THEN from[k] ELSE to[k]]

mergeMaps(newObj, oldObj) == mergeMapsByPrefix(newObj, oldObj, "")

\* mutant: the version token of the old object is not copied
mergeMetadata_KeepsOwnVersion(newObj, oldObj) ==
  [newObj EXCEPT !.labels = mergeMaps(newObj.labels, oldObj.labels),
                 !.annotations = mergeMaps(newObj.annotations, oldObj.annotations)]

\* mergeMetadata(&newObj.ObjectMeta, oldObj.ObjectMeta): the value of newObj
\* after the call.
mergeMetadata(newObj, oldObj) ==
  [newObj EXCEPT !.rv = oldObj.rv,
                 !.labels = mergeMaps(newObj.labels, oldObj.labels),
                 !.annotations = mergeMaps(newObj.annotations, oldObj.annotations)]

\* the map behind a template's annotation field: nil reads as empty
MapOf(opt) == IF opt = {} THEN <<>> ELSE CHOOSE m \in opt : TRUE

\* mutant: every annotation of the object read is propagated
mergeKubectlAnnotations_EveryKey(fromAnn, toAnn) ==
  LET merged == mergeMapsByPrefix(MapOf(fromAnn), MapOf(toAnn), "")
  IN [from |-> {merged}, to |-> IF toAnn = {} THEN {} ELSE {merged}]

\* mergeKubectlAnnotations(&fromMeta, toMeta): toMeta is passed by value, so
\* its annotation map is changed in place when it is a map and stays nil when
\* it is nil (the merge then fills a fresh local map); fromMeta gets the
\* merged map.  The record holds both template annotation fields afterwards.
mergeKubectlAnnotations(fromAnn, toAnn) ==
  LET merged == mergeMapsByPrefix(MapOf(fromAnn), MapOf(toAnn), KubectlPrefix)
  IN [from |-> {merged}, to |-> IF toAnn = {} THEN {} ELSE {merged}]

\* mutant: the references of the new object come first
mergeOwnerReferences_NewFirst(oldObj, newObj) ==
  newObj \o SelectSeq(oldObj, LAMBDA r : r \notin Range(newObj))

\* mergeOwnerReferences(oldObj, newObj): oldObj followed by the references
\* of newObj that are not (by full identity) among oldObj.
mergeOwnerReferences(oldObj, newObj) ==
  oldObj \o SelectSeq(newObj, LAMBDA r : r \notin Range(oldObj))

\* apiequality.Semantic.DeepEqual on two objects of the model: every field
\* is compared (nil and empty maps are one value in the metadata already;
\* a nil and an empty template annotation map are equal too).
SemanticDeepEqual(a, b) ==
  /\ [Decoded(a, 0) EXCEPT !.tmplAnn = {}] = [Decoded(b, 0) EXCEPT !.tmplAnn = {}]
  /\ MapOf(a.tmplAnn) = MapOf(b.tmplAnn)

----------------------------------------------------------------------------
(* The closures handed to retry.RetryOnConflict, cut at their store calls.  *)
(* Each operator is the code that runs after the Get of one attempt: it     *)
(* yields the next store call with the object to send, or the return.      *)

CallCreate(d) == [next |-> "create", d |-> d, err |-> NoErr]
\* mutant: every Update is sent under the name of the first object
CallUpdate_NamesFirstObject(d) ==
  [next |-> "update", d |-> [d EXCEPT !.name = ObjName], err |-> NoErr]

CallUpdate(d) == [next |-> "update", d |-> d, err |-> NoErr]
Return(d, err) == [next |-> "return", d |-> d, err |-> err]

\* mutant: Spec.ClusterIPs is not taken from the existing service
CreateOrUpdateService_KeepsOwnClusterIPs(svc, err, service) ==
  IF err # NoErr
  THEN IF ~IsNotFound(err) THEN Return(svc, err) ELSE CallCreate(svc)
  ELSE LET s1 == [svc EXCEPT !.immut.IPFamilies = service.immut.IPFamilies,
                             !.immut.IPFamilyPolicy = service.immut.IPFamilyPolicy,
                             !.immut.ClusterIP = service.immut.ClusterIP]
           s2 == [s1 EXCEPT !.owners = mergeOwnerReferences(service.owners, s1.owners)]
       IN CallUpdate(mergeMetadata(s2, service))

CreateOrUpdateService(svc, err, service) ==
  IF err # NoErr
  THEN IF ~IsNotFound(err) THEN Return(svc, err) ELSE CallCreate(svc)
  ELSE LET s1 == [svc EXCEPT !.immut.IPFamilies = service.immut.IPFamilies,
                             !.immut.IPFamilyPolicy = service.immut.IPFamilyPolicy,
                             !.immut.ClusterIP = service.immut.ClusterIP,
                             !.immut.ClusterIPs = service.immut.ClusterIPs]
           s2 == [s1 EXCEPT !.owners = mergeOwnerReferences(service.owners, s1.owners)]
       IN CallUpdate(mergeMetadata(s2, service))

\* mutant: every failed Get is taken for "not found"
CreateOrUpdateEndpoints_AnyGetErrorCreates(eps, err, endpoints) ==
  IF err # NoErr
  THEN CallCreate(eps)
  ELSE CallUpdate(mergeMetadata(eps, endpoints))

CreateOrUpdateEndpoints(eps, err, endpoints) ==
  IF err # NoErr
  THEN IF ~IsNotFound(err) THEN Return(eps, err) ELSE CallCreate(eps)
  ELSE CallUpdate(mergeMetadata(eps, endpoints))

CreateOrUpdateEndpointSlice(eps, err, endpoints) ==
  IF err # NoErr
  THEN IF ~IsNotFound(err) THEN Return(eps, err) ELSE CallCreate(eps)
  ELSE CallUpdate(mergeMetadata(eps, endpoints))

\* mutant: the Update is sent whether or not anything differs
CreateOrUpdateSecret_AlwaysUpdates(d, err, existingSecret) ==
  IF err # NoErr
  THEN IF ~IsNotFound(err) THEN Return(d, err) ELSE CallCreate(d)
  ELSE CallUpdate(mergeMetadata(d, existingSecret))

CreateOrUpdateSecret(d, err, existingSecret) ==
  IF err # NoErr
  THEN IF ~IsNotFound(err) THEN Return(d, err) ELSE CallCreate(d)
  ELSE LET merged == mergeMetadata(d, existingSecret)
       IN IF SemanticDeepEqual(existingSecret, merged)
          THEN Return(merged, NoErr)
          ELSE CallUpdate(merged)

\* mutant: a missing object is updated, not created
CreateOrUpdateConfigMap_UpdatesMissing(d, err, existingCM) ==
  IF err # NoErr
  THEN IF ~IsNotFound(err) THEN Return(d, err) ELSE CallUpdate(d)
  ELSE LET merged == mergeMetadata(d, existingCM)
       IN IF SemanticDeepEqual(existingCM, merged)
          THEN Return(merged, NoErr)
          ELSE CallUpdate(merged)

CreateOrUpdateConfigMap(d, err, existingCM) ==
  IF err # NoErr
  THEN IF ~IsNotFound(err) THEN Return(d, err) ELSE CallCreate(d)
  ELSE LET merged == mergeMetadata(d, existingCM)
       IN IF SemanticDeepEqual(existingCM, merged)
          THEN Return(merged, NoErr)
          ELSE CallUpdate(merged)

UpdateDaemonSet(dset, err, existingDset) ==
  IF err # NoErr
  THEN Return(dset, err)
  ELSE LET merged == mergeMetadata(dset, existingDset)
           tmpl == mergeKubectlAnnotations(existingDset.tmplAnn, merged.tmplAnn)
       IN CallUpdate([merged EXCEPT !.tmplAnn = tmpl.to])

updateStatefulSet(sset, err, existingSset) ==
  IF err # NoErr
  THEN Return(sset, err)
  ELSE LET merged == mergeMetadata(sset, existingSset)
           tmpl == mergeKubectlAnnotations(existingSset.tmplAnn, merged.tmplAnn)
       IN CallUpdate([merged EXCEPT !.tmplAnn = tmpl.to])

\* the closure of kind k after its Get
AfterGet(k, d, err, existing) ==
  CASE k = "Service"       -> CreateOrUpdateService(d, err, existing)
    [] k = "Endpoints"     -> CreateOrUpdateEndpoints(d, err, existing)
    [] k = "EndpointSlice" -> CreateOrUpdateEndpointSlice(d, err, existing)
    [] k = "Secret"        -> CreateOrUpdateSecret(d, err, existing)
    [] k = "ConfigMap"     -> CreateOrUpdateConfigMap(d, err, existing)
    [] k = "DaemonSet"     -> UpdateDaemonSet(d, err, existing)
    [] k = "StatefulSet"   -> updateStatefulSet(d, err, existing)

\* mutant: every closure starts with Get
FirstCall_AlwaysGet(k, d) == "get"

\* the first store call of an attempt: CreateOrUpdateEndpointSlice creates
\* at once when the name is empty, every other closure starts with Get.
FirstCall(k, d) == IF k = "EndpointSlice" /\ d.name = "" THEN "create" ELSE "get"

\* mutant: the closure is never run again
RetryAgain_Never(err, n) == FALSE

\* mutant: one attempt more than the backoff has steps
RetryAgain_OneMore(err, n) == IsConflict(err) /\ n <= DefaultRetrySteps

\* retry.RetryOnConflict(retry.DefaultRetry, fn) after fn returned err in
\* attempt n: TRUE when fn runs again.
RetryAgain(err, n) == IsConflict(err) /\ n < DefaultRetrySteps

----------------------------------------------------------------------------
(* ForceUpdateStatefulSet: the code around updateStatefulSet *)

\* longest list of causes in the details of a rejection
MaxCauses == 2

StatusReasonInvalid == "Invalid"

\* Details.Causes of a rejection: each cause has a field and a message
Causes == {[field |-> "spec", message |-> "Forbidden: updates to statefulset spec"],
           [field |-> "spec.selector", message |-> "field is immutable"]}
CauseLists == UNION {[1..n -> Causes] : n \in 0..MaxCauses}

\* ErrStatus.Details of a rejection as invalid: nil, or details with causes
InvalidDetails == {{}} \cup {{c} : c \in CauseLists}

\* err.(*apierrors.StatusError): ok is FALSE for an error that is no
\* StatusError (a failed request); the status of the store's rejections
StatusError(err, details) ==
  CASE err = ErrInvalid       -> [ok |-> TRUE, Code |-> 422, Reason |-> StatusReasonInvalid, Details |-> details]
    [] err = ErrNotFound      -> [ok |-> TRUE, Code |-> 404, Reason |-> "NotFound", Details |-> details]
    [] err = ErrConflict      -> [ok |-> TRUE, Code |-> 409, Reason |-> "Conflict", Details |-> details]
    [] err = ErrAlreadyExists -> [ok |-> TRUE, Code |-> 409, Reason |-> "AlreadyExists", Details |-> details]
    [] OTHER                  -> [ok |-> FALSE, Code |-> 0, Reason |-> "", Details |-> {}]

RECURSIVE Join(_, _)
\* strings.Join(elems, sep)
Join(elems, sep) ==
  IF Len(elems) = 0 THEN ""
  ELSE IF Len(elems) = 1 THEN elems[1]
  ELSE elems[1] \o sep \o Join(Tail(elems), sep)

\* fmt.Errorf("failed to update StatefulSet: %w", err): the chain of errors
Wrapped(msg, err) == <<msg, err>>

OnDeleteCall(reason) == [call |-> "onDeleteFunc", arg |-> <<reason>>]
DeleteCall(name) == [call |-> "Delete", arg |-> <<name, "Foreground">>]

\* mutant: the error of the update is returned as it is
ForceUpdateStatefulSet_ReturnsUnwrapped(err, sErr, fn) ==
  IF err = NoErr
  THEN [next |-> "done", result |-> <<err>>, calls |-> <<>>]
  ELSE IF ~sErr.ok \/ (sErr.Code # 422 \/ sErr.Reason # StatusReasonInvalid)
  THEN [next |-> "done", result |-> <<err>>, calls |-> <<>>]
  ELSE IF sErr.Details = {}
  THEN [next |-> "panic", result |-> <<>>, calls |-> <<>>]
  ELSE LET causes == CHOOSE c \in sErr.Details : TRUE
           failMsg == [i \in 1..Len(causes) |-> causes[i].message]
       IN [next |-> "delete", result |-> <<>>,
           calls |-> IF fn # "nil" THEN <<OnDeleteCall(Join(failMsg, ", "))>> ELSE <<>>]

\* ForceUpdateStatefulSet after updateStatefulSet returned err (sErr is the
\* error as a StatusError): what it returns, or the Delete it goes on to
\* after the callback; the dereference of a nil Details ends it in a panic.
ForceUpdateStatefulSet(err, sErr, fn) ==
  IF err = NoErr
  THEN [next |-> "done", result |-> <<err>>, calls |-> <<>>]
  ELSE IF ~sErr.ok \/ (sErr.Code # 422 \/ sErr.Reason # StatusReasonInvalid)
  THEN [next |-> "done", result |-> Wrapped("failed to update StatefulSet", err),
        calls |-> <<>>]
  ELSE IF sErr.Details = {}
  THEN [next |-> "panic", result |-> <<>>, calls |-> <<>>]
  ELSE LET causes == CHOOSE c \in sErr.Details : TRUE
           failMsg == [i \in 1..Len(causes) |-> causes[i].message]
       IN [next |-> "delete", result |-> <<>>,
           calls |-> IF fn # "nil" THEN <<OnDeleteCall(Join(failMsg, ", "))>> ELSE <<>>]

\* mutant: the labels are patched after any failed Create
CreateStatefulSetOrPatchLabels_PatchesOnAnyError(err) ==
  IF err = NoErr
  THEN [next |-> "done", result |-> <<err>>, calls |-> <<>>]
  ELSE [next |-> "patch", result |-> <<>>, calls |-> <<>>]

\* CreateStatefulSetOrPatchLabels after its Create returned err: what it
\* returns, or the Patch it goes on to
CreateStatefulSetOrPatchLabels(err) ==
  IF err = NoErr
  THEN [next |-> "done", result |-> <<err>>, calls |-> <<>>]
  ELSE IF err # ErrAlreadyExists
  THEN [next |-> "done", result |-> <<err>>, calls |-> <<>>]
  ELSE [next |-> "patch", result |-> <<>>, calls |-> <<>>]

\* json.Marshal of {"metadata": {"labels": sset.Labels}}: the labels member
\* is null ({}) for a nil map and an object ({m}) for a map; the model's
\* empty label map stands for both the nil and the empty map of the caller
\* the metadata member of the patch maps the names of its members to their
\* values
LabelsMembers(sset) == IF sset.labels = <<>> THEN {{}, {<<>>}} ELSE {{sset.labels}}

\* mutant: the patch carries the annotations as well
PatchData_WithAnnotations(sset) ==
  {[metadata |-> [m \in {"labels", "annotations"} |->
                    IF m = "labels" THEN l ELSE {sset.annotations}]] :
     l \in LabelsMembers(sset)}

PatchData(sset) ==
  {[metadata |-> [m \in {"labels"} |-> l]] : l \in LabelsMembers(sset)}

\* types.StrategicMergePatchType: the patch applied to obj.  A null member
\* removes the field, a map member is merged into the field key by key (the
\* keys of the object that the patch does not name stay); a field the patch
\* has no member for is not touched.
StrategicMergePatch(obj, patchData) ==
  LET md == patchData.metadata
      patched(m, cur) ==
        IF m \notin DOMAIN md THEN cur
        ELSE IF md[m] = {} THEN <<>>
        ELSE mergeMapsByPrefix(MapOf(md[m]), cur, "")
  IN [obj EXCEPT !.labels = patched("labels", obj.labels),
                 !.annotations = patched("annotations", obj.annotations)]

\* the Patch call as the store sees it: name, patch type, the labels member
PatchCall(name, patchData) ==
  [call |-> "Patch",
   arg |-> <<name, "StrategicMergePatchType",
             IF patchData.metadata["labels"] = {} THEN "labels: null" ELSE "labels: map">>]

\* the code of the caller that runs when the retry loop (or, for
\* CreateStatefulSetOrPatchLabels, the Create) has returned err
AfterRetry(c, err, sErr, fn) ==
  CASE c = "ForceUpdateStatefulSet" -> ForceUpdateStatefulSet(err, sErr, fn)
    [] c = "CreateStatefulSetOrPatchLabels" -> CreateStatefulSetOrPatchLabels(err)
    [] OTHER -> [next |-> "done", result |-> <<err>>, calls |-> <<>>]

----------------------------------------------------------------------------
(* Finalizer patches (JSON Patch payloads for metadata.finalizers) *)

StatusCleanupFinalizerName == "monitoring.coreos.com/status-cleanup"

\* longest finalizer list
MaxFinalizers == 3

FinalizerNames == {StatusCleanupFinalizerName, "foregroundDeletion", "example.com/other"}
FinalizerLists == UNION {[1..n -> FinalizerNames] : n \in 0..MaxFinalizers}

\* JSON text of a string and of a list of strings
Quote(str) == "\"" \o str \o "\""
ListJSON(list) == "[" \o Join([i \in 1..Len(list) |-> Quote(list[i])], ",") \o "]"

\* fmt.Sprintf("/metadata/finalizers/%d", i)
IndexPath(i) == "/metadata/finalizers/" \o ToString(i)

\* the returned byte slice is {} when nil and {ops} otherwise: the empty
\* slice is {<<>>}, a marshalled patch the sequence of its operations
NilBytes == {}
EmptyBytes == {<<>>}
Marshal(patch) == {patch}

\* mutant: the name is always appended
FinalizerAddPatch_AlwaysAppends(finalizers, finalizerName) ==
  IF finalizerName \in Range(finalizers)
  THEN [patch |-> EmptyBytes, err |-> NoErr]
  ELSE [patch |-> Marshal(<<[op |-> "add", path |-> "/metadata/finalizers/-",
                            value |-> Quote(finalizerName)]>>),
        err |-> NoErr]

FinalizerAddPatch(finalizers, finalizerName) ==
  IF finalizerName \in Range(finalizers)
  THEN [patch |-> EmptyBytes, err |-> NoErr]
  ELSE IF Len(finalizers) = 0
  THEN [patch |-> Marshal(<<[op |-> "add", path |-> "/metadata/finalizers",
                            value |-> ListJSON(<<finalizerName>>)]>>),
        err |-> NoErr]
  ELSE [patch |-> Marshal(<<[op |-> "add", path |-> "/metadata/finalizers/-",
                            value |-> Quote(finalizerName)]>>),
        err |-> NoErr]

\* mutant: the patch has no test operation
FinalizerDeletePatch_NoTest(finalizers, finalizerName) ==
  IF \E i \in 1..Len(finalizers) : finalizers[i] = finalizerName
  THEN LET i == CHOOSE k \in 1..Len(finalizers) :
                  /\ finalizers[k] = finalizerName
                  /\ \A j \in 1..(k - 1) : finalizers[j] # finalizerName
       IN [patch |-> Marshal(<<[op |-> "remove", path |-> IndexPath(i - 1)]>>),
           err |-> NoErr]
  ELSE [patch |-> NilBytes, err |-> NoErr]

\* mutant: the last entry with the name is taken
FinalizerDeletePatch_LastIndex(finalizers, finalizerName) ==
  IF \E i \in 1..Len(finalizers) : finalizers[i] = finalizerName
  THEN LET i == CHOOSE k \in 1..Len(finalizers) :
                  /\ finalizers[k] = finalizerName
                  /\ \A j \in (k + 1)..Len(finalizers) : finalizers[j] # finalizerName
       IN [patch |-> Marshal(<<[op |-> "test", path |-> IndexPath(i - 1),
                                value |-> Quote(finalizerName)],
                               [op |-> "remove", path |-> IndexPath(i - 1)]>>),
           err |-> NoErr]
  ELSE [patch |-> NilBytes, err |-> NoErr]

\* the loop returns at the first entry that equals the name; the index of
\* the code counts from 0
FinalizerDeletePatch(finalizers, finalizerName) ==
  IF \E i \in 1..Len(finalizers) : finalizers[i] = finalizerName
  THEN LET i == CHOOSE k \in 1..Len(finalizers) :
                  /\ finalizers[k] = finalizerName
                  /\ \A j \in 1..(k - 1) : finalizers[j] # finalizerName
       IN [patch |-> Marshal(<<[op |-> "test", path |-> IndexPath(i - 1),
                                value |-> Quote(finalizerName)],
                               [op |-> "remove", path |-> IndexPath(i - 1)]>>),
           err |-> NoErr]
  ELSE [patch |-> NilBytes, err |-> NoErr]

FinalizerPatch(fn, finalizers, finalizerName) ==
  IF fn = "FinalizerAddPatch"
  THEN FinalizerAddPatch(finalizers, finalizerName)
  ELSE FinalizerDeletePatch(finalizers, finalizerName)

NoFinCall == [fn |-> "", finalizers |-> <<>>, finalizerName |-> "",
              patch |-> NilBytes, err |-> NoErr]

----------------------------------------------------------------------------
(* IsAllowed: the permission checks of the operator's identity *)

\* v1.NamespaceAll
NamespaceAll == ""

\* longest list of concrete namespaces given to IsAllowed
MaxNamespaces == 2

SomeNamespaces == <<"default", "monitoring", "kube-system", "kube-public">>

NamespaceLists ==
  {<<>>, <<NamespaceAll>>} \cup {SubSeq(SomeNamespaces, 1, n) : n \in 1..MaxNamespaces}

RaPods == [Resource |-> "pods", Name |-> "", Group |-> "", Version |-> "v1",
           Verbs |-> <<"list", "watch">>]
RaNamespace == [Resource |-> "namespaces", Name |-> "default", Group |-> "",
                Version |-> "v1", Verbs |-> <<"get">>]
RaSecret == [Resource |-> "secrets", Name |-> "tls", Group |-> "", Version |-> "v1",
             Verbs |-> <<"get">>]
\* an attribute without verbs
RaPrometheus == [Resource |-> "prometheuses", Name |-> "", Group |-> "monitoring.coreos.com",
                 Version |-> "v1", Verbs |-> <<>>]

AttributeLists == {<<>>, <<RaPods>>, <<RaNamespace>>, <<RaPrometheus>>,
                   <<RaPods, RaNamespace>>, <<RaPrometheus, RaSecret>>,
                   <<RaSecret, RaPrometheus, RaPods>>}

\* mutant: a check on a named namespace is rewritten for every namespace
ResourceAttributes_RewritesEveryNamespace(ns, ra, verb) ==
  LET resourceAttributes == [Verb |-> verb, Group |-> ra.Group, Version |-> ra.Version,
                             Resource |-> ra.Resource, Name |-> ra.Name, Namespace |-> ns]
  IN IF /\ resourceAttributes.Group = "" /\ resourceAttributes.Resource = "namespaces"
        /\ resourceAttributes.Name # ""
     THEN [resourceAttributes EXCEPT !.Namespace = resourceAttributes.Name]
     ELSE resourceAttributes

\* the ResourceAttributes of the check for namespace ns, attribute ra, verb
ResourceAttributes(ns, ra, verb) ==
  LET resourceAttributes == [Verb |-> verb, Group |-> ra.Group, Version |-> ra.Version,
                             Resource |-> ra.Resource, Name |-> ra.Name, Namespace |-> ns]
  IN IF /\ resourceAttributes.Group = "" /\ resourceAttributes.Resource = "namespaces"
        /\ resourceAttributes.Name # "" /\ resourceAttributes.Namespace = ""
     THEN [resourceAttributes EXCEPT !.Namespace = resourceAttributes.Name]
     ELSE resourceAttributes

\* the reason appended for a denied check (%q quotes its argument)
MissingPermission(ns, ra, verb) ==
  LET resource == IF ra.Name # "" THEN ra.Resource \o "/" \o ra.Name ELSE ra.Resource
      head == "missing " \o Quote(verb) \o " permission on resource " \o Quote(resource)
                \o " (group: " \o Quote(ra.Group) \o ")"
  IN IF ns = NamespaceAll
     THEN head \o " for all namespaces"
     ELSE head \o " for namespace " \o Quote(ns)

\* the iterations of the three nested loops: <<i, j, k>> is verb k of
\* attribute j for namespace i
Iterations(namespaces, attributes) ==
  UNION {{<<i, j, k>> : k \in 1..Len(attributes[j].Verbs)} :
           i \in 1..Len(namespaces), j \in 1..Len(attributes)}

\* it runs before other in the nested loops
Before(it, other) ==
  \/ it[1] < other[1]
  \/ it[1] = other[1] /\ it[2] < other[2]
  \/ it[1] = other[1] /\ it[2] = other[2] /\ it[3] < other[3]

NoIter == <<0, 0, 0>>

\* mutant: the loop over the attributes is the outer one
NextIteration_RequirementFirst(namespaces, attributes, it) ==
  LET first(x, y) == Before(<<x[2], x[1], x[3]>>, <<y[2], y[1], y[3]>>)
      later == {x \in Iterations(namespaces, attributes) : it = NoIter \/ first(it, x)}
  IN IF later = {} THEN NoIter
     ELSE CHOOSE x \in later : \A y \in later : x = y \/ first(x, y)

\* the first iteration of the loops after `it` (NoIter: from the start), or
\* NoIter when the loops are over
NextIteration(namespaces, attributes, it) ==
  LET later == {x \in Iterations(namespaces, attributes) : it = NoIter \/ Before(it, x)}
  IN IF later = {} THEN NoIter
     ELSE CHOOSE x \in later : \A y \in later : x = y \/ Before(x, y)

\* the values returned: allowed, the missing permissions, the error
IsAllowedReturn(allowed, missing, err) == [allowed |-> allowed, missing |-> missing, err |-> err]

\* the return after the loops
IsAllowedAfterLoops(missing) == IsAllowedReturn(Len(missing) = 0, missing, NoErr)

\* mutant: a call without attributes is taken as a call without verbs
IsAllowedEntry_NoPrecondition(attributes, first, unset) ==
  IF first = NoIter
  THEN [pc |-> "done", result |-> IsAllowedAfterLoops(<<>>)]
  ELSE [pc |-> "check", result |-> unset]

\* IsAllowed up to its first check: first is the first iteration of the
\* loops, result the not yet assigned return values
IsAllowedEntry(attributes, first, unset) ==
  IF Len(attributes) = 0
  THEN [pc |-> "done",
        result |-> IsAllowedReturn(FALSE, <<>>, "resource attributes must not be empty")]
  ELSE IF first = NoIter
  THEN [pc |-> "done", result |-> IsAllowedAfterLoops(<<>>)]
  ELSE [pc |-> "check", result |-> unset]

\* mutant: a failed request returns the reasons gathered so far
IsAllowedAfterCheck_ReturnsPartial(answer, missing, reason, next, unset) ==
  IF answer = ErrOther
  THEN [pc |-> "done", missing |-> missing, result |-> IsAllowedReturn(FALSE, missing, answer)]
  ELSE LET gathered == IF answer = "denied" THEN Append(missing, reason) ELSE missing
       IN IF next = NoIter
          THEN [pc |-> "done", missing |-> gathered, result |-> IsAllowedAfterLoops(gathered)]
          ELSE [pc |-> "check", missing |-> gathered, result |-> unset]

\* mutant: the first denial ends the loops
IsAllowedAfterCheck_StopsAtDenial(answer, missing, reason, next, unset) ==
  IF answer = ErrOther
  THEN [pc |-> "done", missing |-> missing, result |-> IsAllowedReturn(FALSE, <<>>, answer)]
  ELSE LET gathered == IF answer = "denied" THEN Append(missing, reason) ELSE missing
       IN IF next = NoIter \/ answer = "denied"
          THEN [pc |-> "done", missing |-> gathered, result |-> IsAllowedAfterLoops(gathered)]
          ELSE [pc |-> "check", missing |-> gathered, result |-> unset]

\* the body of the loops after the answer to a check: a failed request
\* returns at once without the reasons, a denial appends its reason; next is
\* the iteration that follows (NoIter: the loops are over)
IsAllowedAfterCheck(answer, missing, reason, next, unset) ==
  IF answer = ErrOther
  THEN [pc |-> "done", missing |-> missing, result |-> IsAllowedReturn(FALSE, <<>>, answer)]
  ELSE LET gathered == IF answer = "denied" THEN Append(missing, reason) ELSE missing
       IN IF next = NoIter
          THEN [pc |-> "done", missing |-> gathered, result |-> IsAllowedAfterLoops(gathered)]
          ELSE [pc |-> "check", missing |-> gathered, result |-> unset]

InitIsAllowedVars(start) ==
  /\ isaPc = start
  /\ isaArgs = [namespaces |-> <<>>, attributes |-> <<>>]
  /\ isaIter = NoIter
  /\ submitted = <<>>
  /\ missingPermissions = <<>>
  /\ isaResult = IsAllowedReturn(FALSE, <<>>, NoErr)

----------------------------------------------------------------------------
(* ResourceNamer: names turned into DNS-1123 labels.  A string is a sequence
   of one-character strings. *)

\* validation.DNS1123LabelMaxLength
DNS1123LabelMaxLength == 63

\* the length of the hash suffix: h[:9]
HashSuffixLength == 9

\* most hyphens at the end of a prefix
MaxHyphens == 2

NamerCallers == {"n1", "n2"}

Repeat(c, n) == [i \in 1..n |-> c]

LowerCase == {"a", "b", "c", "d", "e", "f", "g", "h", "i", "j", "k", "l", "m",
              "n", "o", "p", "q", "r", "s", "t", "u", "v", "w", "x", "y", "z"}
Digits == {"0", "1", "2", "3", "4", "5", "6", "7", "8", "9"}

\* the upper-case letters and their lower-case letters
UpperToLower ==
  ("A" :> "a") @@ ("B" :> "b") @@ ("C" :> "c") @@ ("D" :> "d") @@ ("E" :> "e") @@
  ("F" :> "f") @@ ("G" :> "g") @@ ("H" :> "h") @@ ("I" :> "i") @@ ("J" :> "j") @@
  ("K" :> "k") @@ ("L" :> "l") @@ ("M" :> "m") @@ ("N" :> "n") @@ ("O" :> "o") @@
  ("P" :> "p") @@ ("Q" :> "q") @@ ("R" :> "r") @@ ("S" :> "s") @@ ("T" :> "t") @@
  ("U" :> "u") @@ ("V" :> "v") @@ ("W" :> "w") @@ ("X" :> "x") @@ ("Y" :> "y") @@
  ("Z" :> "z")

\* strings.ToLower
ToLower(s) ==
  [i \in 1..Len(s) |-> IF s[i] \in DOMAIN UpperToLower THEN UpperToLower[s[i]] ELSE s[i]]

\* the characters the expression [^-a-z0-9]+ does not match
invalidDNS1123Characters(c) == c \notin ({"-"} \cup LowerCase \cup Digits)

\* invalidDNS1123Characters.ReplaceAllString(s, "-"): every longest run of
\* invalid characters becomes one hyphen
\* (the characters lo..hi of s, the two halves one after the other)
RECURSIVE ReplaceAllString(_, _, _)
ReplaceAllString(s, lo, hi) ==
  IF lo > hi THEN <<>>
  ELSE IF lo = hi
  THEN IF ~invalidDNS1123Characters(s[lo]) THEN <<s[lo]>>
       ELSE IF lo > 1 /\ invalidDNS1123Characters(s[lo - 1]) THEN <<>>
       ELSE <<"-">>
  ELSE ReplaceAllString(s, lo, (lo + hi) \div 2)
         \o ReplaceAllString(s, (lo + hi) \div 2 + 1, hi)

\* strings.TrimRight(s, "-")
TrimRight(s) ==
  LET kept == {i \in 1..Len(s) : s[i] # "-"}
  IN IF kept = {} THEN <<>>
     ELSE SubSeq(s, 1, CHOOSE i \in kept : \A j \in kept : j <= i)

\* strings.Trim(s, "-")
Trim(s) ==
  LET kept == {i \in 1..Len(s) : s[i] # "-"}
  IN IF kept = {} THEN <<>>
     ELSE SubSeq(s, CHOOSE i \in kept : \A j \in kept : i <= j,
                    CHOOSE i \in kept : \A j \in kept : j <= i)

\* mutant: the hyphens at the end of the prefix are kept
sanitizedLabel_KeepsPrefixHyphens(prefix, name) ==
  LET named == IF prefix # <<>> THEN prefix \o <<"-">> \o name ELSE name
  IN Trim(ReplaceAllString(ToLower(named), 1, Len(named)))

\* rn.sanitizedLabel(name) of a namer with the prefix
sanitizedLabel(prefix, name) ==
  LET named == IF prefix # <<>> THEN TrimRight(prefix) \o <<"-">> \o name ELSE name
  IN Trim(ReplaceAllString(ToLower(named), 1, Len(named)))

\* validation.IsDNS1123Label: the messages of the rules the value breaks
IsDNS1123Label(value) ==
  LET alnum == LowerCase \cup Digits
      tooLong == Len(value) > DNS1123LabelMaxLength
      matches == /\ Len(value) > 0
                 /\ value[1] \in alnum /\ value[Len(value)] \in alnum
                 /\ \A i \in 1..Len(value) : value[i] \in alnum \cup {"-"}
  IN (IF tooLong THEN <<"must be no more than 63 characters">> ELSE <<>>)
       \o (IF matches THEN <<>> ELSE <<"a lowercase RFC 1123 label must consist of lower case alphanumeric characters or '-', and must start and end with an alphanumeric character">>)

\* isValidDNS1123Label: the error, NoErr for nil
isValidDNS1123Label(name) ==
  LET errs == IsDNS1123Label(name)
  IN IF Len(errs) > 0 THEN Join(errs, ",") ELSE NoErr

\* xxhash Sum64 of the bytes of some names, as 16 hexadecimal digits
Sum64Table ==
  {
   <<<<"@", "$", "!", "!", "@", "$", "%", "!", "#", "$", "%", "!", "#", "$", "%", "!", "#", "$", "!", "#", "$", "%", "%", "$", "#", "@", "!", "#">>,
     <<"5", "f", "0", "7", "0", "f", "e", "a", "6", "5", "b", "f", "5", "a", "9", "5">>>>,
   <<<<"N", "A", "M", "E">>,
     <<"4", "c", "f", "d", "3", "5", "7", "4", "5", "0", "b", "2", "0", "9", "0", "a">>>>,
   <<<<"n", "a", "m", "e">>,
     <<"6", "c", "5", "f", "7", "b", "2", "e", "4", "a", "7", "9", "f", "d", "6", "d">>>>,
   <<<<"f", "o", "o", "-", "-">>,
     <<"e", "7", "0", "5", "c", "7", "c", "8", "7", "0", "e", "4", "f", "d", "9", "2">>>>,
   <<<<"f", "o", "o", "^", "%", "#", "$", "b", "a", "r">>,
     <<"f", "3", "e", "2", "1", "2", "b", "1", "1", "6", "6", "0", "b", "c", "e", "3">>>>,
   <<<<"f", "O", "o", "^", "%", "#", "$", "b", "a", "r">>,
     <<"e", "e", "5", "c", "3", "c", "1", "8", "9", "3", "a", "7", "d", "d", "5", "d">>>>,
   <<Repeat("a", 126),
     <<"4", "e", "d", "6", "9", "c", "e", "2", "c", "9", "a", "8", "2", "9", "3", "e">>>>,
   <<Repeat("a", 63) \o <<"f", "o", "o">>,
     <<"2", "5", "5", "3", "d", "8", "2", "9", "b", "c", "8", "2", "6", "6", "e", "0">>>>,
   <<Repeat("a", 63) \o <<"b", "a", "r">>,
     <<"5", "3", "5", "8", "c", "7", "a", "d", "0", "6", "a", "1", "3", "2", "3", "2">>>>,
   <<<<"g">>,
     <<"0", "3", "f", "4", "1", "2", "0", "4", "e", "1", "2", "e", "2", "6", "a", "e">>>>,
   <<Repeat("a", 54) \o <<"0", "e", "f", "d">>,
     <<"2", "2", "b", "9", "f", "d", "0", "0", "3", "b", "3", "5", "1", "a", "a", "d">>>>,
   <<Repeat("a", 54) \o <<"h", "p", "m", "e">>,
     <<"2", "2", "b", "9", "f", "d", "0", "0", "b", "3", "6", "4", "9", "5", "b", "6">>>>,
   <<Repeat("a", 62) \o <<"-", "b">>,
     <<"d", "6", "2", "d", "8", "c", "4", "7", "9", "0", "3", "a", "2", "a", "9", "f">>>>,
   <<Repeat("a", 53) \o <<"-", "b">>,
     <<"5", "3", "f", "2", "f", "b", "1", "9", "a", "4", "f", "6", "f", "d", "4", "1">>>>,
   <<<<>>,
     <<"e", "f", "4", "6", "d", "b", "3", "7", "5", "1", "d", "8", "e", "9", "9", "9">>>>,
   <<<<"d", "2", "3", "0", "4", "h", "y", "n">>,
     <<"0", "0", "0", "0", "0", "0", "0", "0", "0", "9", "4", "7", "6", "7", "5", "8">>>>
  }

\* the names given to the namer
NamerNames == {e[1] : e \in Sum64Table}

\* xxh.Sum64() after xxh.Write([]byte(name))
Sum64(name) == (CHOOSE e \in Sum64Table : e[1] = name)[2]

\* fmt.Sprintf("-%x", sum): the hexadecimal digits without leading zeros
SprintfHex(sum) ==
  LET nonzero == {i \in 1..Len(sum) : sum[i] # "0"}
      first == IF nonzero = {} THEN Len(sum) ELSE CHOOSE i \in nonzero : \A j \in nonzero : i <= j
  IN <<"-">> \o SubSeq(sum, first, Len(sum))

\* what a call returns: a panic, or the name and the error
NamerReturn(name, err) == [panic |-> FALSE, name |-> name, err |-> err]
NamerPanic == [panic |-> TRUE, name |-> <<>>, err |-> NoErr]

\* mutant: the name is truncated and gets no suffix
UniqueDNS1123Label_PlainTruncation(prefix, name) ==
  LET sanitized == sanitizedLabel(prefix, name)
      kept == IF Len(sanitized) > DNS1123LabelMaxLength - HashSuffixLength
              THEN SubSeq(sanitized, 1, DNS1123LabelMaxLength - HashSuffixLength)
              ELSE sanitized
  IN IF Len(IsDNS1123Label(kept)) > 0
     THEN NamerReturn(<<>>, Join(IsDNS1123Label(kept), ","))
     ELSE NamerReturn(kept, isValidDNS1123Label(kept))

\* rn.UniqueDNS1123Label(name) of a namer with the prefix; slicing a string
\* of fewer than 9 bytes to h[:9] panics
UniqueDNS1123Label(prefix, name) ==
  LET hex == SprintfHex(Sum64(name))
  IN IF Len(hex) < HashSuffixLength THEN NamerPanic
     ELSE LET h == SubSeq(hex, 1, HashSuffixLength)
              sanitized == sanitizedLabel(prefix, name)
              kept == IF Len(sanitized) > DNS1123LabelMaxLength - HashSuffixLength
                      THEN SubSeq(sanitized, 1, DNS1123LabelMaxLength - HashSuffixLength)
                      ELSE sanitized
              suffixed == kept \o h
          IN IF Len(IsDNS1123Label(suffixed)) > 0
             THEN NamerReturn(<<>>, Join(IsDNS1123Label(suffixed), ","))
             ELSE NamerReturn(suffixed, isValidDNS1123Label(suffixed))

\* rn.DNS1123Label(name) of a namer with the prefix
DNS1123Label(prefix, name) ==
  LET sanitized == sanitizedLabel(prefix, name)
      kept == IF Len(sanitized) > DNS1123LabelMaxLength
              THEN SubSeq(sanitized, 1, DNS1123LabelMaxLength)
              ELSE sanitized
  IN NamerReturn(kept, isValidDNS1123Label(kept))

\* the prefixes of the namers: none, or a prefix with some hyphens after it
NamerPrefixes ==
  {<<>>} \cup
  {b \o Repeat("-", k) :
     b \in {<<"w", "i", "t", "h", "-", "p", "r", "e", "f", "i", "x">>,
            <<"P", "r", "e", "_">>, <<"-">>},
     k \in 0..MaxHyphens}

NoNamerCall == [fn |-> "none"]

----------------------------------------------------------------------------
(* EnsureCustomGoverningService: the check of a governing service *)

\* most writes of other actors to the services
MaxServiceWrites == 2

ServiceNamespaces == {"test-ns", "wrong-ns"}
ServiceNames == {"test-svc", "other-svc"}

\* the services of the store: namespace and name
ServiceKeys == ServiceNamespaces \X {"test-svc"}

\* no service under a namespace and name
Absent == {}

\* a map[string]string is the set of its <<key, value>> entries
\* the labels of the pods, as in the test
SelectorLabels ==
  {<<"k8sutil", "test-k8sutil">>, <<"app.kubernetes.io/name", "k8sutil">>,
   <<"app.kubernetes.io/instance", "test-k8sutil">>,
   <<"app.kubernetes.io/managed-by", "prometheus-operator">>}

\* the label maps given to the call
GivenLabels == {SelectorLabels, {<<"k8sutil", "test-k8sutil">>}, {}}

\* svc.Spec.Selector of the services (the store accepts valid label maps
\* only): none, the labels of the pods, a part of them, other values, a key
\* the pods do not have
ServiceSelectors ==
  {{}, SelectorLabels, {<<"k8sutil", "test-k8sutil">>},
   {<<"k8sutil", "different-name">>, <<"app.kubernetes.io/name", "k8sutil">>,
    <<"app.kubernetes.io/instance", "different-name">>,
    <<"app.kubernetes.io/managed-by", "prometheus-operator">>},
   {<<"k8sutil", "test-k8sutil">>, <<"tier", "db">>}}

\* metav1.LabelSelectorAsSelector of MatchLabels: one requirement key = value
\* for every entry, nothing required without entries; a key or value that is
\* no label is an error
LabelSelectorAsSelector(matchLabels) ==
  IF \E e \in matchLabels : e[1] = ""
  THEN [err |-> "invalid label key", requirements |-> {}]
  ELSE [err |-> NoErr, requirements |-> {[key |-> e[1], value |-> e[2]] : e \in matchLabels}]

\* mutant: the labels have to be among the selector
Matches_LabelsInSelector(requirements, set) ==
  \A e \in set : [key |-> e[1], value |-> e[2]] \in requirements

\* svcSelector.Matches(labels.Set(set)): the set has every required key,
\* with the required value
Matches(requirements, set) ==
  \A r \in requirements : \E e \in set : e[1] = r.key /\ e[2] = r.value

\* EnsureCustomGoverningService after svcClient.Get answered svc, err: the
\* chain of errors returned (<<NoErr>> for nil)
EnsureCustomGoverningService(namespace, serviceName, svc, err, selectorLabels) ==
  IF err # NoErr
  THEN Wrapped("failed to get custom governing service " \o namespace \o "/" \o serviceName, err)
  ELSE LET svcSelector == LabelSelectorAsSelector(svc.selector)
       IN IF svcSelector.err # NoErr
          THEN Wrapped("failed to parse the selector labels for custom governing service "
                         \o namespace \o "/" \o serviceName, svcSelector.err)
          ELSE IF ~Matches(svcSelector.requirements, selectorLabels)
          THEN <<"custom governing service " \o namespace \o "/" \o serviceName
                   \o " does not select pods">>
          ELSE <<NoErr>>

NoGsCall == [made |-> FALSE]

----------------------------------------------------------------------------
(* Inputs: the objects callers pass and the objects the store starts with *)

With(k, v) == [x \in {k} |-> v]

\* metadata of the desired objects: nothing set, a key of its own added, the
\* key of the stored object overridden; the last one is an object the caller
\* read from the store earlier, which still carries the version token it had
DesiredMeta == {[rv |-> 0, labels |-> <<>>, annotations |-> <<>>],
                [rv |-> 0, labels |-> With(ExtraKey, "value"), annotations |-> With(ExtraKey, "value")],
                [rv |-> 1, labels |-> With(AppKey, "overridden"), annotations |-> With(AppKey, "overridden")]}
StoredLabels == {With(AppKey, "ksm")}
StoredAnnotations == {With(AppKey, "ksm")}
\* what another actor may set the labels of the live object to
ExtLabels == {<<>>, With(AppKey, "changed")}

DesiredOwners == {<<>>, <<RefA>>, <<RefC, RefA>>}
StoredOwners == {<<>>, <<RefB, RefA>>}

DesiredTemplates == {{}, {<<>>}, {With(RestartKey, "now")}, {With(TestKey, "modified")}}
StoredTemplates == {{}, {With(RestartKey, "yesterday")},
                    {[k \in {RestartKey, TestKey} |-> "yesterday"]}}

HasTemplate(k) == k \in {"DaemonSet", "StatefulSet"}

HasData(k) == k \in {"Secret", "ConfigMap"}

DesiredObjs(k) ==
  {[name |-> n, rv |-> m.rv, labels |-> m.labels, annotations |-> m.annotations,
    owners |-> o, immut |-> i, data |-> d, tmplAnn |-> t, finalizers |-> <<>>] :
     n \in IF k = "EndpointSlice" THEN {ObjName, ""} ELSE {ObjName},
     m \in DesiredMeta,
     o \in IF k = "Service" THEN DesiredOwners ELSE {<<>>},
     i \in IF k = "Service" THEN {ImmutUnset, ImmutB} ELSE {ImmutUnset},
     d \in IF HasData(k) THEN {"v1", "v2"} ELSE {"v2"},
     t \in IF HasTemplate(k) THEN DesiredTemplates ELSE {{}}}

\* objects as the store holds them when the behaviour starts (version 1)
StoredObjs(k) ==
  {[name |-> ObjName, rv |-> 1, labels |-> l, annotations |-> a, owners |-> o,
    immut |-> i, data |-> "v1", tmplAnn |-> t, finalizers |-> <<>>] :
     l \in StoredLabels, a \in StoredAnnotations,
     o \in IF k = "Service" THEN StoredOwners ELSE {<<>>},
     i \in IF k = "Service" THEN {ImmutA} ELSE {ImmutUnset},
     t \in IF HasTemplate(k) THEN StoredTemplates ELSE {{}}}

----------------------------------------------------------------------------
(* The cluster store: get, create and update of one object by name, with    *)
(* the version token assigned by the store and compared on update.         *)

NoCall == [op |-> "none", obj |-> EmptyObj, err |-> NoErr]

GenNameOf(p) == IF p = "p1" THEN "gen-p1" ELSE "gen-p2"

\* answers of Get(name): the stored object, not found, or a failed request
GetAnswers(name) ==
  {[err |-> ErrOther, obj |-> EmptyObj]} \cup
  {IF name \in present
   THEN [err |-> NoErr, obj |-> store[name]]
   ELSE [err |-> ErrNotFound, obj |-> EmptyObj]}

\* the store's own answer to Create(obj) under the name n
CreateAnswer(n) == IF n \in present THEN ErrAlreadyExists ELSE NoErr

\* the store's own answer to Update(obj)
UpdateAnswer(obj) ==
  IF obj.name \notin present THEN ErrNotFound
  ELSE IF obj.rv # 0 /\ obj.rv # store[obj.name].rv THEN ErrConflict
  ELSE NoErr

\* the store's answers to Update(obj) with the details they carry: the
\* update of a StatefulSet that would change a field that cannot change
\* after creation (immut stands for these fields) is rejected as invalid
UpdateAnswers(obj) ==
  IF /\ kind = "StatefulSet" /\ UpdateAnswer(obj) = NoErr
     /\ obj.immut # store[obj.name].immut
  THEN {[err |-> ErrInvalid, details |-> d] : d \in InvalidDetails}
         \cup {[err |-> ErrOther, details |-> {}]}
  ELSE {[err |-> e, details |-> {}] : e \in {UpdateAnswer(obj), ErrOther}}

\* the store's own answer to Delete(name)
DeleteAnswer(name) == IF name \in present THEN NoErr ELSE ErrNotFound

\* the store's own answer to Patch(name, ...)
PatchAnswer(name) == IF name \in present THEN NoErr ELSE ErrNotFound

\* one operation of a JSON Patch applied to the finalizer list of an object.
\* The finalizers member of the metadata exists when the list is not empty:
\* "add" at the member sets (or replaces) the whole list, "add" at "-"
\* appends to an existing list, "test" compares the entry at an index,
\* "remove" takes the entry at an index out.
ApplyOperation(list, operation) ==
  LET failed == [ok |-> FALSE, list |-> list]
      indexes == {i \in 0..(Len(list) - 1) : operation.path = IndexPath(i)}
      at == CHOOSE i \in indexes : TRUE
  IN CASE operation.op = "add" /\ operation.path = "/metadata/finalizers" ->
            IF \E n \in FinalizerNames : operation.value = ListJSON(<<n>>)
            THEN [ok |-> TRUE,
                  list |-> <<CHOOSE n \in FinalizerNames : operation.value = ListJSON(<<n>>)>>]
            ELSE failed
       [] operation.op = "add" /\ operation.path = "/metadata/finalizers/-" ->
            IF list # <<>> /\ \E n \in FinalizerNames : operation.value = Quote(n)
            THEN [ok |-> TRUE,
                  list |-> Append(list, CHOOSE n \in FinalizerNames : operation.value = Quote(n))]
            ELSE failed
       [] operation.op = "test" /\ indexes # {} ->
            IF Quote(list[at + 1]) = operation.value
            THEN [ok |-> TRUE, list |-> list]
            ELSE failed
       [] operation.op = "remove" /\ indexes # {} ->
            [ok |-> TRUE,
             list |-> SubSeq(list, 1, at) \o SubSeq(list, at + 2, Len(list))]
       [] OTHER -> failed

RECURSIVE ApplyJSONPatch(_, _)
\* the operations of a patch in order; the first that fails rejects the patch
ApplyJSONPatch(list, patch) ==
  IF patch = <<>> THEN [ok |-> TRUE, list |-> list]
  ELSE LET first == ApplyOperation(list, Head(patch))
       IN IF first.ok THEN ApplyJSONPatch(first.list, Tail(patch))
          ELSE [ok |-> FALSE, list |-> list]

\* the write of obj under name n with a new version token
Written(n, obj) ==
  /\ lastRV' = lastRV + 1
  /\ present' = present \cup {n}
  /\ store' = [store EXCEPT ![n] = [Decoded(obj, 0) EXCEPT !.name = n, !.rv = lastRV + 1]]

----------------------------------------------------------------------------
(* Invocations *)

\* retry.RetryOnConflict after the closure returned err from the store call
\* `call` (or after it): run the closure again, or return err to the caller
\* as it is.
ClosureReturned(p, d, err, call) ==
  IF RetryAgain(err, attempt[p])
  THEN /\ pc' = [pc EXCEPT ![p] = FirstCall(kind, d)]
       /\ attempt' = [attempt EXCEPT ![p] = @ + 1]
       /\ seen' = [seen EXCEPT ![p] = {}]
       /\ UNCHANGED <<result, calls>>
  ELSE LET out == AfterRetry(caller[p], err, StatusError(err, errDetails'[p]),
                             onDeleteFunc[p])
       IN /\ pc' = [pc EXCEPT ![p] = out.next]
          /\ result' = [result EXCEPT ![p] = out.result]
          /\ calls' = [calls EXCEPT ![p] = @ \o out.calls]
          /\ seen' = [seen EXCEPT ![p] = @ \cup {call}]
          /\ UNCHANGED attempt

\* the caller invokes the operation of the kind with a desired object
Start(p) ==
  /\ pc[p] = "idle"
  /\ \E d \in DesiredObjs(kind) :
       /\ orig' = [orig EXCEPT ![p] = d]
       /\ desired' = [desired EXCEPT ![p] = d]
       /\ pc' = [pc EXCEPT ![p] = FirstCall(kind, d)]
  /\ attempt' = [attempt EXCEPT ![p] = 1]
  /\ UNCHANGED <<kind, present, store, lastRV, observed, seen, lastCall, result, extLeft>>
  /\ UNCHANGED <<caller, onDeleteFunc, errDetails, calls>>
  /\ UNCHANGED auxVars

\* client.Get and the code of the closure up to its next store call
Get(p) ==
  /\ pc[p] = "get"
  /\ \E ans \in GetAnswers(desired[p].name) :
       LET obj == Decoded(ans.obj, attempt[p])
           out == AfterGet(kind, desired[p], ans.err, obj) IN
         /\ observed' = [observed EXCEPT ![p] = obj]
         /\ lastCall' = [lastCall EXCEPT ![p] = [op |-> "Get", obj |-> EmptyObj, err |-> ans.err]]
         /\ errDetails' = [errDetails EXCEPT ![p] = {}]
         /\ desired' = [desired EXCEPT ![p] = out.d]
         /\ IF out.next = "return"
            THEN ClosureReturned(p, out.d, out.err, "Get")
            ELSE /\ pc' = [pc EXCEPT ![p] = out.next]
                 /\ seen' = [seen EXCEPT ![p] = @ \cup {"Get"}]
                 /\ UNCHANGED <<attempt, result, calls>>
  /\ UNCHANGED <<kind, present, store, lastRV, orig, extLeft, caller, onDeleteFunc>>
  /\ UNCHANGED auxVars

\* client.Create(desired): the closure returns the answer of the store
Create(p) ==
  /\ pc[p] = "create"
  /\ LET obj == desired[p]
         n == IF obj.name = "" THEN GenNameOf(p) ELSE obj.name
     IN \E err \in {CreateAnswer(n), ErrOther} :
          /\ lastCall' = [lastCall EXCEPT ![p] = [op |-> "Create", obj |-> obj, err |-> err]]
          /\ errDetails' = [errDetails EXCEPT ![p] = {}]
          /\ IF err = NoErr
             THEN Written(n, obj)
             ELSE UNCHANGED <<present, store, lastRV>>
          /\ ClosureReturned(p, obj, err, "Create")
  /\ UNCHANGED <<kind, orig, desired, observed, extLeft, caller, onDeleteFunc>>
  /\ UNCHANGED auxVars

\* client.Update(desired): the closure returns the answer of the store
Update(p) ==
  /\ pc[p] = "update"
  /\ LET obj == desired[p]
     IN \E ans \in UpdateAnswers(obj) :
          /\ lastCall' = [lastCall EXCEPT ![p] = [op |-> "Update", obj |-> obj, err |-> ans.err]]
          /\ errDetails' = [errDetails EXCEPT ![p] = ans.details]
          /\ IF ans.err = NoErr
             THEN Written(obj.name, obj)
             ELSE UNCHANGED <<present, store, lastRV>>
          /\ ClosureReturned(p, obj, ans.err, "Update")
  /\ UNCHANGED <<kind, orig, desired, observed, extLeft, caller, onDeleteFunc>>
  /\ UNCHANGED auxVars

\* client.Delete(name, foreground propagation): ForceUpdateStatefulSet
\* returns the answer of the store
Delete(p) ==
  /\ pc[p] = "delete"
  /\ LET name == desired[p].name
     IN \E err \in {DeleteAnswer(name), ErrOther} :
          /\ lastCall' = [lastCall EXCEPT ![p] = [op |-> "Delete", obj |-> EmptyObj, err |-> err]]
          /\ calls' = [calls EXCEPT ![p] = Append(@, DeleteCall(name))]
          /\ IF err = NoErr
             THEN /\ present' = present \ {name}
                  /\ store' = [store EXCEPT ![name] = EmptyObj]
                  /\ lastRV' = lastRV + 1
             ELSE UNCHANGED <<present, store, lastRV>>
          /\ pc' = [pc EXCEPT ![p] = "done"]
          /\ result' = [result EXCEPT ![p] = <<err>>]
          /\ seen' = [seen EXCEPT ![p] = @ \cup {"Delete"}]
  /\ UNCHANGED <<kind, orig, desired, observed, attempt, extLeft, caller,
                 onDeleteFunc, errDetails>>
  /\ UNCHANGED auxVars

\* json.Marshal of the labels and client.Patch(name, strategic merge
\* patch, data): CreateStatefulSetOrPatchLabels returns the answer of the
\* store; a patch that changes nothing writes nothing
Patch(p) ==
  /\ pc[p] = "patch"
  /\ LET name == desired[p].name
     IN \E patchData \in PatchData(desired[p]), err \in {PatchAnswer(name), ErrOther} :
          /\ lastCall' = [lastCall EXCEPT ![p] = [op |-> "Patch", obj |-> EmptyObj, err |-> err]]
          /\ calls' = [calls EXCEPT ![p] = Append(@, PatchCall(name, patchData))]
          /\ LET patched == StrategicMergePatch(store[name], patchData)
             IN IF err = NoErr /\ patched # store[name]
                THEN Written(name, patched)
                ELSE UNCHANGED <<present, store, lastRV>>
          /\ pc' = [pc EXCEPT ![p] = "done"]
          /\ result' = [result EXCEPT ![p] = <<err>>]
          /\ seen' = [seen EXCEPT ![p] = @ \cup {"Patch"}]
  /\ UNCHANGED <<kind, orig, desired, observed, attempt, extLeft, caller,
                 onDeleteFunc, errDetails>>
  /\ UNCHANGED auxVars

\* the caller reads the finalizers of the live object and builds a patch
\* from them with FinalizerAddPatch or FinalizerDeletePatch; a nil or empty
\* patch is not sent
BuildFinalizerPatch(p) ==
  /\ pc[p] = "idle" /\ ObjName \in present
  /\ \E fn \in {"FinalizerAddPatch", "FinalizerDeletePatch"}, name \in FinalizerNames :
       LET finalizers == store[ObjName].finalizers
           out == FinalizerPatch(fn, finalizers, name)
           sent == out.err = NoErr /\ out.patch \notin {NilBytes, EmptyBytes}
       IN /\ finCall' = [finCall EXCEPT ![p] =
                            [fn |-> fn, finalizers |-> finalizers, finalizerName |-> name,
                             patch |-> out.patch, err |-> out.err]]
          /\ caller' = [caller EXCEPT ![p] = fn]
          /\ observed' = [observed EXCEPT ![p] = store[ObjName]]
          /\ pc' = [pc EXCEPT ![p] = IF sent THEN "applyPatch" ELSE "done"]
          /\ result' = [result EXCEPT ![p] = IF sent THEN <<>> ELSE <<out.err>>]
  /\ UNCHANGED <<kind, present, store, lastRV, orig, desired, attempt, seen, lastCall,
                 extLeft, onDeleteFunc, errDetails, calls, isaVars, rnCalls, gsVars>>

\* client.Patch(name, JSON patch, data): the store applies the operations to
\* the live object in one step, or rejects the patch and changes nothing
ApplyFinalizerPatch(p) ==
  /\ pc[p] = "applyPatch"
  /\ LET patch == CHOOSE ops \in finCall[p].patch : TRUE
         applied == ApplyJSONPatch(store[ObjName].finalizers, patch)
         answer == IF ObjName \notin present THEN ErrNotFound
                   ELSE IF applied.ok THEN NoErr ELSE ErrInvalid
     IN \E err \in {answer, ErrOther} :
          /\ lastCall' = [lastCall EXCEPT ![p] = [op |-> "Patch", obj |-> EmptyObj, err |-> err]]
          /\ IF err = NoErr /\ applied.list # store[ObjName].finalizers
             THEN Written(ObjName, [store[ObjName] EXCEPT !.finalizers = applied.list])
             ELSE UNCHANGED <<present, store, lastRV>>
          /\ pc' = [pc EXCEPT ![p] = "done"]
          /\ result' = [result EXCEPT ![p] = <<err>>]
          /\ seen' = [seen EXCEPT ![p] = @ \cup {"Patch"}]
  /\ UNCHANGED <<kind, orig, desired, observed, attempt, extLeft, caller,
                 onDeleteFunc, errDetails, calls, finCall, isaVars, rnCalls, gsVars>>

storeProcVars == <<kind, present, store, lastRV, pc, orig, desired, observed,
                   attempt, seen, lastCall, result, caller, onDeleteFunc,
                   errDetails, calls, finCall>>

reconcileNoNamerVars == <<storeProcVars, extLeft, gsVars>>

reconcileVars == <<reconcileNoNamerVars, rnCalls>>

\* the call of IsAllowed up to its first permission check: without
\* attributes it returns an error, an empty namespace list stands for all
\* namespaces, and without any verb the loops end at once
IsAllowedCall ==
  /\ isaPc = "idle"
  /\ \E nsArg \in NamespaceLists, attributes \in AttributeLists :
       LET namespaces == IF Len(nsArg) = 0 THEN <<NamespaceAll>> ELSE nsArg
           first == NextIteration(namespaces, attributes, NoIter)
           out == IsAllowedEntry(attributes, first, isaResult)
       IN /\ isaArgs' = [namespaces |-> nsArg, attributes |-> attributes]
          /\ isaPc' = out.pc
          /\ isaResult' = out.result
          /\ isaIter' = first
  /\ UNCHANGED <<submitted, missingPermissions, reconcileVars>>

\* ssarClient.Create of the check of the running iteration and the code up
\* to the next check: a failed request ends the call, a denial appends its
\* reason, and the loops go on
SubmitCheck ==
  /\ isaPc = "check"
  /\ LET namespaces == IF Len(isaArgs.namespaces) = 0 THEN <<NamespaceAll>>
                       ELSE isaArgs.namespaces
         ns == namespaces[isaIter[1]]
         ra == isaArgs.attributes[isaIter[2]]
         verb == ra.Verbs[isaIter[3]]
         next == NextIteration(namespaces, isaArgs.attributes, isaIter)
     IN \E answer \in {"allowed", "denied", ErrOther} :
          LET out == IsAllowedAfterCheck(answer, missingPermissions,
                                         MissingPermission(ns, ra, verb), next, isaResult)
          IN /\ submitted' = Append(submitted,
                                    [attributes |-> ResourceAttributes(ns, ra, verb),
                                     answer |-> answer])
             /\ isaPc' = out.pc
             /\ missingPermissions' = out.missing
             /\ isaResult' = out.result
             /\ isaIter' = IF out.pc = "check" THEN next ELSE isaIter
  /\ UNCHANGED <<isaArgs, reconcileVars>>

\* a caller builds a namer with a prefix and calls UniqueDNS1123Label
CallUniqueDNS1123Label(c) ==
  /\ rnCalls[c] = NoNamerCall
  /\ \E prefix \in NamerPrefixes, name \in NamerNames :
       rnCalls' = [rnCalls EXCEPT ![c] = [fn |-> "UniqueDNS1123Label", prefix |-> prefix,
                                         name |-> name,
                                         out |-> UniqueDNS1123Label(prefix, name)]]
  /\ UNCHANGED <<reconcileNoNamerVars, isaVars>>

\* a caller builds a namer with a prefix and calls DNS1123Label
CallDNS1123Label(c) ==
  /\ rnCalls[c] = NoNamerCall
  /\ \E prefix \in NamerPrefixes, name \in NamerNames :
       rnCalls' = [rnCalls EXCEPT ![c] = [fn |-> "DNS1123Label", prefix |-> prefix,
                                         name |-> name,
                                         out |-> DNS1123Label(prefix, name)]]
  /\ UNCHANGED <<reconcileNoNamerVars, isaVars>>

\* the answers of the store to the Get of a service through a client of
\* the namespace: the service, that it is not found, or a failed request
GetServiceAnswers(clientNamespace, serviceName) ==
  LET key == <<clientNamespace, serviceName>>
  IN (IF key \in ServiceKeys /\ services[key] # Absent
      THEN {[svc |-> CHOOSE v \in services[key] : TRUE, err |-> NoErr]}
      ELSE {[svc |-> [selector |-> {}], err |-> ErrNotFound]})
       \cup {[svc |-> [selector |-> {}], err |-> ErrOther]}

\* one call of EnsureCustomGoverningService with a client of a namespace: the
\* Get and the comparison of the selector with the labels
EnsureCustomGoverningServiceCall ==
  /\ \E namespace \in ServiceNamespaces, clientNamespace \in ServiceNamespaces,
        serviceName \in ServiceNames, selectorLabels \in GivenLabels :
       \E ans \in GetServiceAnswers(clientNamespace, serviceName) :
         gsCall' = [made |-> TRUE, namespace |-> namespace,
                    clientNamespace |-> clientNamespace, serviceName |-> serviceName,
                    selectorLabels |-> selectorLabels, answer |-> ans.err,
                    result |-> EnsureCustomGoverningService(namespace, serviceName, ans.svc,
                                                            ans.err, selectorLabels)]
  /\ UNCHANGED <<storeProcVars, extLeft, isaVars, rnCalls, services>>

\* another actor creates a service, changes its selector or deletes it
ExtWriteService ==
  /\ extLeft > 0
  /\ extLeft' = extLeft - 1
  /\ \E key \in ServiceKeys :
       \E v \in {Absent} \cup {{[selector |-> sel]} : sel \in ServiceSelectors} :
         /\ v # services[key]
         /\ services' = [services EXCEPT ![key] = v]
  /\ UNCHANGED <<storeProcVars, isaVars, rnCalls, gsCall>>

----------------------------------------------------------------------------
(* Other actors of the cluster (kubectl, controllers, autoscalers) *)

procVars == <<pc, orig, desired, observed, attempt, seen, lastCall, result,
              caller, onDeleteFunc, errDetails, calls, auxVars>>

\* another actor replaces the labels of the live object
ExtSetLabels ==
  /\ extLeft > 0 /\ ObjName \in present
  /\ \E l \in ExtLabels :
       /\ l # store[ObjName].labels
       /\ Written(ObjName, [store[ObjName] EXCEPT !.labels = l])
  /\ extLeft' = extLeft - 1
  /\ UNCHANGED <<kind, procVars>>

\* kubectl rollout restart: sets the restart marker on the pod template
ExtRestart ==
  /\ extLeft > 0 /\ ObjName \in present /\ HasTemplate(kind)
  /\ LET old == MapOf(store[ObjName].tmplAnn)
         new == [k \in DOMAIN old \cup {RestartKey} |->
                   IF k = RestartKey THEN "now" ELSE old[k]]
     IN /\ new # old
        /\ Written(ObjName, [store[ObjName] EXCEPT !.tmplAnn = {new}])
  /\ extLeft' = extLeft - 1
  /\ UNCHANGED <<kind, procVars>>

\* the finalizer lists another actor can turn list into: one finalizer
\* more at the end, or one entry less
FinalizerChanges(list) ==
  {Append(list, n) : n \in IF Len(list) < MaxFinalizers THEN FinalizerNames ELSE {}}
    \cup {SubSeq(list, 1, i - 1) \o SubSeq(list, i + 1, Len(list)) : i \in 1..Len(list)}

\* another actor changes the finalizers of the live object
ExtSetFinalizers ==
  /\ extLeft > 0 /\ ObjName \in present
  /\ \E l \in FinalizerChanges(store[ObjName].finalizers) :
       Written(ObjName, [store[ObjName] EXCEPT !.finalizers = l])
  /\ extLeft' = extLeft - 1
  /\ UNCHANGED <<kind, procVars>>

\* another actor deletes the live object
ExtDelete ==
  /\ extLeft > 0 /\ ObjName \in present
  /\ present' = present \ {ObjName}
  /\ store' = [store EXCEPT ![ObjName] = EmptyObj]
  /\ lastRV' = lastRV + 1
  /\ extLeft' = extLeft - 1
  /\ UNCHANGED <<kind, procVars>>

\* another actor creates the object
ExtCreate ==
  /\ extLeft > 0 /\ ObjName \notin present
  /\ \E o \in StoredObjs(kind) : Written(ObjName, o)
  /\ extLeft' = extLeft - 1
  /\ UNCHANGED <<kind, procVars>>

----------------------------------------------------------------------------
(* Specification *)

InitInvocations(ps) ==
  /\ pc = [p \in Procs |-> IF p \in ps THEN "idle" ELSE "off"]
  /\ orig = [p \in Procs |-> EmptyObj]
  /\ desired = [p \in Procs |-> EmptyObj]
  /\ observed = [p \in Procs |-> EmptyObj]
  /\ attempt = [p \in Procs |-> 0]
  /\ seen = [p \in Procs |-> {}]
  /\ lastCall = [p \in Procs |-> NoCall]
  /\ result = [p \in Procs |-> <<>>]
  /\ caller = [p \in Procs |-> ""]
  /\ onDeleteFunc = [p \in Procs |-> "nil"]
  /\ errDetails = [p \in Procs |-> {}]
  /\ calls = [p \in Procs |-> <<>>]
  /\ finCall = [p \in Procs |-> NoFinCall]
  /\ rnCalls = [c \in NamerCallers |-> NoNamerCall]
  /\ services = [k \in ServiceKeys |-> Absent]
  /\ gsCall = NoGsCall

\* the invocations ps can start; IsAllowed is not called
InitProcs(ps) == InitInvocations(ps) /\ InitIsAllowedVars("off")

InitStore ==
  /\ lastRV = 1
  /\ \/ /\ present = {}
        /\ store = [n \in Names |-> EmptyObj]
     \/ /\ present = {ObjName}
        /\ \E o \in StoredObjs(kind) :
             store = [n \in Names |-> IF n = ObjName THEN o ELSE EmptyObj]

Init ==
  /\ kind \in Kinds
  /\ InitStore
  /\ InitProcs({"p1"})
  /\ extLeft = MaxExtWrites

Next ==
  \/ \E p \in Procs : Start(p)
  \/ \E p \in Procs : Get(p)
  \/ \E p \in Procs : Create(p)
  \/ \E p \in Procs : Update(p)
  \/ ExtSetLabels
  \/ ExtRestart
  \/ ExtDelete
  \/ ExtCreate

Spec == Init /\ [][Next]_vars

\* Two invocations for the same object and no other actor: every rejected
\* write is a race between the two.
InitRace ==
  /\ kind \in Kinds
  /\ InitStore
  /\ InitProcs(Procs)
  /\ extLeft = 0

NextRace ==
  \/ \E p \in Procs : Start(p)
  \/ \E p \in Procs : Get(p)
  \/ \E p \in Procs : Create(p)
  \/ \E p \in Procs : Update(p)

SpecRace == InitRace /\ [][NextRace]_vars

\* Two invocations for two objects of one kind and no other actor: p1 is
\* given an object named ObjName, p2 one named OtherName (or both an
\* EndpointSlice without a name, for which the store generates a name at
\* each Create).
NameGiven(p) == IF p = "p1" THEN ObjName ELSE OtherName

InitDisjoint ==
  /\ kind \in Kinds
  /\ lastRV = 1
  /\ \E ns \in SUBSET {ObjName, OtherName} :
       /\ present = ns
       /\ \E o \in [ns -> StoredObjs(kind)] :
            store = [n \in Names |-> IF n \in ns THEN [o[n] EXCEPT !.name = n] ELSE EmptyObj]
  /\ InitProcs(Procs)
  /\ extLeft = 0

StartDisjoint(p) ==
  /\ pc[p] = "idle"
  /\ \E d \in DesiredObjs(kind) :
       LET given == IF d.name = "" THEN d ELSE [d EXCEPT !.name = NameGiven(p)] IN
         /\ orig' = [orig EXCEPT ![p] = given]
         /\ desired' = [desired EXCEPT ![p] = given]
         /\ pc' = [pc EXCEPT ![p] = FirstCall(kind, given)]
  /\ attempt' = [attempt EXCEPT ![p] = 1]
  /\ UNCHANGED <<kind, present, store, lastRV, observed, seen, lastCall, result, extLeft>>
  /\ UNCHANGED <<caller, onDeleteFunc, errDetails, calls>>
  /\ UNCHANGED auxVars

NextDisjoint ==
  \/ \E p \in Procs : StartDisjoint(p)
  \/ \E p \in Procs : Get(p)
  \/ \E p \in Procs : Create(p)
  \/ \E p \in Procs : Update(p)

SpecDisjoint == InitDisjoint /\ [][NextDisjoint]_vars

\* CreateOrUpdateService on an existing service, for every pair of owner
\* reference lists up to MaxOwners references long.
OwnerRefs == {RefA, RefB, RefC}
OwnerSeqs == UNION {[1..n -> OwnerRefs] : n \in 0..MaxOwners}

InitOwners ==
  /\ kind = "Service"
  /\ lastRV = 1
  /\ present = {ObjName}
  /\ \E o \in OwnerSeqs :
       store = [n \in Names |->
                  IF n = ObjName
                  THEN [EmptyObj EXCEPT !.name = ObjName, !.rv = 1, !.owners = o,
                                        !.immut = ImmutA, !.data = "v1"]
                  ELSE EmptyObj]
  /\ InitProcs({"p1"})
  /\ extLeft = 0

StartOwners(p) ==
  /\ pc[p] = "idle"
  /\ \E o \in OwnerSeqs :
       LET d == [EmptyObj EXCEPT !.name = ObjName, !.owners = o, !.data = "v2"]
       IN /\ orig' = [orig EXCEPT ![p] = d]
          /\ desired' = [desired EXCEPT ![p] = d]
          /\ pc' = [pc EXCEPT ![p] = FirstCall(kind, d)]
  /\ attempt' = [attempt EXCEPT ![p] = 1]
  /\ UNCHANGED <<kind, present, store, lastRV, observed, seen, lastCall, result, extLeft>>
  /\ UNCHANGED <<caller, onDeleteFunc, errDetails, calls>>
  /\ UNCHANGED auxVars

NextOwners ==
  \/ \E p \in Procs : StartOwners(p)
  \/ \E p \in Procs : Get(p)
  \/ \E p \in Procs : Update(p)

SpecOwners == InitOwners /\ [][NextOwners]_vars

\* ForceUpdateStatefulSet on a StatefulSet, with other actors writing
InitForce ==
  /\ kind = "StatefulSet"
  /\ InitStore
  /\ InitProcs({"p1"})
  /\ extLeft = MaxExtWrites

\* desired StatefulSets: as the stored one in the fields that cannot change,
\* or with another value there
ForceDesired ==
  {[d EXCEPT !.immut = i] :
     d \in {x \in DesiredObjs("StatefulSet") : x.rv = 0 /\ x.tmplAnn = {}},
     i \in {ImmutUnset, ImmutB}}

\* the caller invokes ForceUpdateStatefulSet with or without a callback
StartForce(p) ==
  /\ pc[p] = "idle"
  /\ \E d \in ForceDesired :
       /\ orig' = [orig EXCEPT ![p] = d]
       /\ desired' = [desired EXCEPT ![p] = d]
       /\ pc' = [pc EXCEPT ![p] = FirstCall(kind, d)]
  /\ \E fn \in {"nil", "fn"} : onDeleteFunc' = [onDeleteFunc EXCEPT ![p] = fn]
  /\ caller' = [caller EXCEPT ![p] = "ForceUpdateStatefulSet"]
  /\ attempt' = [attempt EXCEPT ![p] = 1]
  /\ UNCHANGED <<kind, present, store, lastRV, observed, seen, lastCall, result, extLeft>>
  /\ UNCHANGED <<errDetails, calls>>
  /\ UNCHANGED auxVars

NextForce ==
  \/ \E p \in Procs : StartForce(p)
  \/ \E p \in Procs : Get(p)
  \/ \E p \in Procs : Update(p)
  \/ \E p \in Procs : Delete(p)
  \/ ExtSetLabels
  \/ ExtRestart
  \/ ExtDelete
  \/ ExtCreate

SpecForce == InitForce /\ [][NextForce]_vars

\* CreateStatefulSetOrPatchLabels, with other actors writing: the stored
\* StatefulSet has an owner reference and a finalizer
PatchDesired ==
  {[d EXCEPT !.owners = o] :
     d \in {x \in DesiredObjs("StatefulSet") : x.tmplAnn \in {{}, {With(TestKey, "modified")}}},
     o \in {<<>>, <<RefA>>}}

PatchStored ==
  {[o EXCEPT !.owners = <<RefB>>, !.finalizers = <<"foregroundDeletion">>] :
     o \in {x \in StoredObjs("StatefulSet") : x.tmplAnn # {}}}

InitPatch ==
  /\ kind = "StatefulSet"
  /\ lastRV = 1
  /\ \/ /\ present = {}
        /\ store = [n \in Names |-> EmptyObj]
     \/ /\ present = {ObjName}
        /\ \E o \in PatchStored :
             store = [n \in Names |-> IF n = ObjName THEN o ELSE EmptyObj]
  /\ InitProcs({"p1"})
  /\ extLeft = MaxExtWrites

\* the caller invokes CreateStatefulSetOrPatchLabels: it starts with Create
StartPatch(p) ==
  /\ pc[p] = "idle"
  /\ \E d \in PatchDesired :
       /\ orig' = [orig EXCEPT ![p] = d]
       /\ desired' = [desired EXCEPT ![p] = d]
  /\ pc' = [pc EXCEPT ![p] = "create"]
  /\ caller' = [caller EXCEPT ![p] = "CreateStatefulSetOrPatchLabels"]
  /\ attempt' = [attempt EXCEPT ![p] = 1]
  /\ UNCHANGED <<kind, present, store, lastRV, observed, seen, lastCall, result, extLeft>>
  /\ UNCHANGED <<onDeleteFunc, errDetails, calls>>
  /\ UNCHANGED auxVars

NextPatch ==
  \/ \E p \in Procs : StartPatch(p)
  \/ \E p \in Procs : Create(p)
  \/ \E p \in Procs : Patch(p)
  \/ ExtSetLabels
  \/ ExtRestart
  \/ ExtDelete
  \/ ExtCreate

SpecPatch == InitPatch /\ [][NextPatch]_vars

\* writes of other actors to the finalizers in one behaviour
MaxFinalizerWrites == 2

\* a configuration object with any finalizer list, a caller that patches a
\* finalizer, and other actors changing the list
InitFinalizers ==
  /\ kind = "ConfigMap"
  /\ lastRV = 1
  /\ present = {ObjName}
  /\ \E o \in StoredObjs(kind), l \in FinalizerLists :
       store = [n \in Names |-> IF n = ObjName THEN [o EXCEPT !.finalizers = l]
                                ELSE EmptyObj]
  /\ InitProcs({"p1"})
  /\ extLeft = MaxFinalizerWrites

NextFinalizers ==
  \/ \E p \in Procs : BuildFinalizerPatch(p)
  \/ \E p \in Procs : ApplyFinalizerPatch(p)
  \/ ExtSetFinalizers

SpecFinalizers == InitFinalizers /\ [][NextFinalizers]_vars

\* two callers that patch the finalizers of one object and no other actor
InitFinalizerRace ==
  /\ kind = "ConfigMap"
  /\ lastRV = 1
  /\ present = {ObjName}
  /\ \E o \in StoredObjs(kind), l \in FinalizerLists :
       store = [n \in Names |-> IF n = ObjName THEN [o EXCEPT !.finalizers = l]
                                ELSE EmptyObj]
  /\ InitProcs(Procs)
  /\ extLeft = 0

NextFinalizerRace ==
  \/ \E p \in Procs : BuildFinalizerPatch(p)
  \/ \E p \in Procs : ApplyFinalizerPatch(p)

SpecFinalizerRace == InitFinalizerRace /\ [][NextFinalizerRace]_vars

\* writes of other actors before the first of two invocations returns
MaxEarlierWrites == 2

\* CreateOrUpdateSecret or CreateOrUpdateConfigMap called twice in a row: other
\* actors write until the first invocation returns, nobody after that
InitTwice ==
  /\ kind \in {"Secret", "ConfigMap"}
  /\ InitStore
  /\ InitProcs(Procs)
  /\ extLeft = MaxEarlierWrites

\* the second invocation starts when the first has returned success; it is
\* given the object the first was given, as the first left it, or an object
\* built again with the same content
StartSecond ==
  /\ pc["p1"] = "done" /\ result["p1"] = <<NoErr>>
  /\ pc["p2"] = "idle"
  /\ \E d \in {orig["p1"], desired["p1"]} :
       /\ orig' = [orig EXCEPT !["p2"] = d]
       /\ desired' = [desired EXCEPT !["p2"] = d]
       /\ pc' = [pc EXCEPT !["p2"] = FirstCall(kind, d)]
  /\ attempt' = [attempt EXCEPT !["p2"] = 1]
  /\ UNCHANGED <<kind, present, store, lastRV, observed, seen, lastCall, result, extLeft>>
  /\ UNCHANGED <<caller, onDeleteFunc, errDetails, calls>>
  /\ UNCHANGED auxVars

NextTwice ==
  \/ Start("p1")
  \/ StartSecond
  \/ \E p \in Procs : Get(p)
  \/ \E p \in Procs : Create(p)
  \/ \E p \in Procs : Update(p)
  \/ pc["p1"] # "done" /\ ExtSetLabels
  \/ pc["p1"] # "done" /\ ExtDelete
  \/ pc["p1"] # "done" /\ ExtCreate

SpecTwice == InitTwice /\ [][NextTwice]_vars

\* One invocation on an object that exists, with other actors that change
\* its labels.  The invocation keeps running: every store call returns and
\* the waits between the attempts end.
InitLive ==
  /\ kind \in Kinds
  /\ lastRV = 1
  /\ present = {ObjName}
  /\ \E o \in StoredObjs(kind) :
       store = [n \in Names |-> IF n = ObjName THEN o ELSE EmptyObj]
  /\ InitProcs({"p1"})
  /\ extLeft = MaxExtWrites

Step(p) == Start(p) \/ Get(p) \/ Create(p) \/ Update(p)

NextLive ==
  \/ \E p \in Procs : Start(p)
  \/ \E p \in Procs : Get(p)
  \/ \E p \in Procs : Create(p)
  \/ \E p \in Procs : Update(p)
  \/ ExtSetLabels

SpecLive == InitLive /\ [][NextLive]_vars /\ WF_vars(Step("p1"))

\* one call of IsAllowed; the store answers each check as it likes
InitIsAllowed ==
  /\ kind = "Service"
  /\ lastRV = 1
  /\ present = {}
  /\ store = [n \in Names |-> EmptyObj]
  /\ InitInvocations({})
  /\ extLeft = 0
  /\ InitIsAllowedVars("idle")

NextIsAllowed ==
  \/ IsAllowedCall
  \/ SubmitCheck

SpecIsAllowed == InitIsAllowed /\ [][NextIsAllowed]_vars

\* two callers, each with one call of a namer
InitNamer ==
  /\ kind = "Service"
  /\ lastRV = 1
  /\ present = {}
  /\ store = [n \in Names |-> EmptyObj]
  /\ InitInvocations({})
  /\ extLeft = 0
  /\ InitIsAllowedVars("off")

NextNamer ==
  \/ \E c \in NamerCallers : CallUniqueDNS1123Label(c)
  \/ \E c \in NamerCallers : CallDNS1123Label(c)

SpecNamer == InitNamer /\ [][NextNamer]_vars

\* calls of EnsureCustomGoverningService while other actors write services
InitGoverning ==
  /\ kind = "Service"
  /\ lastRV = 1
  /\ present = {}
  /\ store = [n \in Names |-> EmptyObj]
  /\ InitInvocations({})
  /\ extLeft = MaxServiceWrites
  /\ InitIsAllowedVars("off")

NextGoverning ==
  \/ EnsureCustomGoverningServiceCall
  \/ ExtWriteService

SpecGoverning == InitGoverning /\ [][NextGoverning]_vars

----------------------------------------------------------------------------
(* Claims *)

\* the kinds whose operation creates the object when Get answers not found
CreatingKinds == {"Service", "Endpoints", "EndpointSlice", "Secret", "ConfigMap"}

\* C1: every Update submitted to the store carries the version token of the
\* object returned by the Get of the same attempt, a token the store
\* assigned: not one of an earlier attempt, of the caller, or none.
C1_UpdateCarriesObservedVersion ==
  \A p \in Procs :
    /\ pc[p] = "update" =>
         /\ "Get" \in seen[p]
         /\ desired[p].rv = observed[p].rv
         /\ observed[p].rv # 0
    /\ lastCall[p].op = "Update" =>
         /\ lastCall[p].obj.rv = observed[p].rv
         /\ lastCall[p].obj.rv # 0

\* an Update of a later attempt succeeded for a caller who passed a token of
\* its own, after another actor had moved the version on
C1_Witness ==
  \E p \in Procs :
    /\ lastCall[p].op = "Update" /\ lastCall[p].err = NoErr
    /\ attempt[p] >= 2
    /\ orig[p].rv # 0 /\ lastCall[p].obj.rv # orig[p].rv

\* C2: a write rejected as a version conflict starts a new attempt with a
\* fresh Get; an invocation never runs more than DefaultRetrySteps attempts;
\* when the last attempt too ends in a conflict the invocation ends and
\* returns the conflict error.
C2_ConflictRetriesBounded ==
  /\ [](\A p \in Procs : attempt[p] <= DefaultRetrySteps)
  /\ [][\A p \in Procs :
          (pc[p] \in {"update", "create"} /\ pc'[p] # pc[p]
             /\ lastCall'[p].err = ErrConflict) =>
            IF attempt[p] < DefaultRetrySteps
            THEN pc'[p] = "get" /\ attempt'[p] = attempt[p] + 1 /\ seen'[p] = {}
            ELSE pc'[p] = "done" /\ result'[p] = <<ErrConflict>>]_vars

\* every attempt of an invocation ended in a conflict
C2_Witness ==
  \E p \in Procs :
    pc[p] = "done" /\ result[p] = <<ErrConflict>> /\ attempt[p] = DefaultRetrySteps

\* C3: an error of Get, Create or Update that is no version conflict (and,
\* for a creating kind, not the not-found answer to Get) ends the invocation
\* at once: the caller gets that error, not wrapped, and the invocation
\* issues no further store call.
C3_OtherErrorsAbortUnwrapped ==
  /\ [](\A p \in Procs :
          (/\ lastCall[p].op # "none"
           /\ lastCall[p].err \notin {NoErr, ErrConflict}
           /\ ~(lastCall[p].op = "Get" /\ lastCall[p].err = ErrNotFound
                  /\ kind \in CreatingKinds))
          => pc[p] = "done" /\ result[p] = <<lastCall[p].err>>)
  /\ [][\A p \in Procs :
          pc[p] = "done" => pc'[p] = "done" /\ lastCall'[p] = lastCall[p]
                              /\ result'[p] = result[p]]_vars

\* an Update answered not found (the object was deleted after the Get) and
\* the caller got that error
C3_Witness ==
  \E p \in Procs :
    /\ lastCall[p].op = "Update" /\ lastCall[p].err = ErrNotFound
    /\ pc[p] = "done" /\ result[p] = <<ErrNotFound>>

\* C4 as claimed: an invocation whose write lost a race (the store rejected
\* it as a conflict, or as a create of an object another invocation had just
\* created) never returns that rejection while it has attempts left.
C4_EveryLoserRetries ==
  \A p \in Procs :
    (/\ pc[p] = "done"
     /\ lastCall[p].op \in {"Create", "Update"}
     /\ lastCall[p].err \in {ErrConflict, ErrAlreadyExists})
    => attempt[p] = DefaultRetrySteps

\* C4 amended: an invocation whose Update is rejected as a version conflict
\* never returns that conflict while it has attempts left (it retries from a
\* fresh read); an invocation whose Create is rejected because the object
\* exists by then does not retry and returns AlreadyExists to its caller.
C4_UpdateLosersRetryCreateLosersFail ==
  \A p \in Procs :
    /\ (pc[p] = "done" /\ lastCall[p].err = ErrConflict)
         => attempt[p] = DefaultRetrySteps
    /\ (lastCall[p].op = "Update" /\ lastCall[p].err = ErrConflict /\ pc[p] # "done")
         => pc[p] = "get" /\ seen[p] = {}
    /\ (lastCall[p].op = "Create" /\ lastCall[p].err = ErrAlreadyExists)
         => pc[p] = "done" /\ result[p] = <<ErrAlreadyExists>>

\* both invocations succeeded, one of them in its second attempt after the
\* other's write had made its first Update stale
C4_Witness ==
  \E p, q \in Procs :
    /\ p # q
    /\ pc[p] = "done" /\ result[p] = <<NoErr>> /\ attempt[p] = 2
    /\ lastCall[p].op = "Update"
    /\ pc[q] = "done" /\ result[q] = <<NoErr>> /\ attempt[q] = 1
    /\ lastCall[q].op = "Update"

\* the union of two maps in which the desired value wins on a shared key
UnionDesiredWins(observedMap, desiredMap) ==
  [k \in DOMAIN observedMap \cup DOMAIN desiredMap |->
     IF k \in DOMAIN desiredMap THEN desiredMap[k] ELSE observedMap[k]]

\* C5: when CreateOrUpdateService, CreateOrUpdateEndpoints,
\* CreateOrUpdateSecret or updateStatefulSet updates an existing object, the
\* labels it stores are the union of the labels observed at the read and the
\* labels of the desired object the caller passed, the desired value on every
\* shared key and the observed value on every observed-only key; the same
\* for the annotations.
C5_StoredMetadataIsUnion ==
  \A p \in Procs :
    (/\ kind \in {"Service", "Endpoints", "Secret", "StatefulSet"}
     /\ lastCall[p].op = "Update" /\ lastCall[p].err = NoErr)
    => /\ lastCall[p].obj.labels =
            UnionDesiredWins(observed[p].labels, orig[p].labels)
       /\ lastCall[p].obj.annotations =
            UnionDesiredWins(observed[p].annotations, orig[p].annotations)

\* C6: while a service exists, no step changes its stored ClusterIP,
\* ClusterIPs, IPFamilies and IPFamilyPolicy, whatever the desired objects of
\* the CreateOrUpdateService calls hold in those fields.
C6_ServiceImmutableFieldsKept ==
  [][(kind = "Service" /\ ObjName \in present /\ ObjName \in present')
       => store'[ObjName].immut = store[ObjName].immut]_vars

\* two calls have updated a service, one of them with other values in the
\* four fields, and the service has the values it had before
C6_Witness ==
  \E p, q \in Procs :
    /\ p # q /\ kind = "Service"
    /\ lastCall[p].op = "Update" /\ lastCall[p].err = NoErr /\ pc[p] = "done"
    /\ lastCall[q].op = "Update" /\ lastCall[q].err = NoErr /\ pc[q] = "done"
    /\ orig[p].immut = ImmutB /\ orig[q].immut = ImmutUnset
    /\ store[ObjName].immut = ImmutA

\* the fields of an owner reference, with the value behind each pointer
RefValue(ref) == [ref EXCEPT !.controller = {c.val : c \in @}]

RefValues(refs) == [i \in DOMAIN refs |-> RefValue(refs[i])]

\* C7: the owner references an Update of CreateOrUpdateService carries
\* start with the references read, in their order (none is dropped or
\* moved); in a first attempt they are followed by exactly the references of
\* the caller's desired object that are not among the ones read, in desired
\* order.
C7_ObservedOwnersKept ==
  \A p \in Procs :
    (kind = "Service" /\ lastCall[p].op = "Update") =>
      LET o == RefValues(observed[p].owners)
          d == RefValues(orig[p].owners)
          r == RefValues(lastCall[p].obj.owners)
          tail == SubSeq(r, Len(o) + 1, Len(r))
          kept == {i \in 1..Len(d) : d[i] \notin Range(o)}
      IN /\ Len(r) >= Len(o)
         /\ SubSeq(r, 1, Len(o)) = o
         /\ attempt[p] = 1 =>
              /\ Len(tail) = Cardinality(kept)
              /\ \A i \in 1..Len(tail) :
                   \E j \in kept :
                     /\ tail[i] = d[j]
                     /\ Cardinality({x \in kept : x < j}) = i - 1

\* a service that had two owner references was updated by a call whose
\* desired object named another reference first: the references read stay
\* first, and the desired reference that was read already is there twice
C7_Witness ==
  \E p \in Procs :
    /\ kind = "Service"
    /\ lastCall[p].op = "Update" /\ lastCall[p].err = NoErr
    /\ RefValues(observed[p].owners) = RefValues(<<RefB, RefA>>)
    /\ orig[p].owners = <<RefC, RefA>>
    /\ RefValues(lastCall[p].obj.owners) = RefValues(<<RefB, RefA, RefC, RefA>>)

C9_EqualObjectSkipsWrite ==
  /\ [](\A p \in Procs :
          (/\ kind \in {"Secret", "ConfigMap"}
           /\ lastCall[p].op = "Get" /\ lastCall[p].err = NoErr
           /\ SemanticDeepEqual(observed[p], desired[p]))
          => pc[p] = "done" /\ result[p] = <<NoErr>> /\ seen[p] = {"Get"})
  /\ [][\A p \in Procs :
          (/\ kind \in {"Secret", "ConfigMap"}
           /\ pc[p] = "get" /\ pc'[p] = "done" /\ result'[p] = <<NoErr>>)
          => UNCHANGED <<present, store, lastRV>>]_vars

\* an operation on a secret or config map read an object equal to the merged
\* desired one and returned success without a write
C9_Witness ==
  \E p \in Procs :
    /\ kind \in {"Secret", "ConfigMap"}
    /\ pc[p] = "done" /\ result[p] = <<NoErr>>
    /\ lastCall[p].op = "Get" /\ seen[p] = {"Get"}
    /\ ObjName \in present /\ store[ObjName] = observed[p]

\* C10: after updateStatefulSet or UpdateDaemonSet succeeds, every pod
\* template annotation with the kubectl.kubernetes.io/ prefix that the
\* object had at the read is stored with the same value, for every desired
\* object (a template without annotation map included).
C10_KubectlAnnotationsKept ==
  \A p \in Procs :
    (/\ HasTemplate(kind)
     /\ lastCall[p].op = "Update" /\ lastCall[p].err = NoErr)
    => LET old == MapOf(observed[p].tmplAnn)
           new == MapOf(lastCall[p].obj.tmplAnn)
       IN \A k \in DOMAIN old :
            HasPrefix(k, KubectlPrefix) => k \in DOMAIN new /\ new[k] = old[k]

----------------------------------------------------------------------------
(* Claims on ForceUpdateStatefulSet *)

IsForce(p) == caller[p] = "ForceUpdateStatefulSet"

\* the callback invocations ForceUpdateStatefulSet owes for the rejection it
\* got: one, with the cause messages joined by ", ", when a callback was given
OwedCallbacks(p) ==
  IF onDeleteFunc[p] = "nil" THEN <<>>
  ELSE LET causes == MapOf(errDetails[p])
       IN <<OnDeleteCall(Join([i \in 1..Len(causes) |-> causes[i].message], ", "))>>

\* C11: when the update inside ForceUpdateStatefulSet is rejected as invalid
\* (422, reason Invalid), the operation calls the callback once with the
\* cause messages joined by ", " (no call without a callback), then issues
\* one Delete of the StatefulSet with foreground propagation, and returns
\* exactly the answer to that Delete.
C11_InvalidUpdateCallsBackThenDeletes ==
  \A p \in Procs :
    IsForce(p) =>
      /\ (lastCall[p].op = "Update" /\ lastCall[p].err = ErrInvalid)
           => pc[p] = "delete" /\ calls[p] = OwedCallbacks(p)
      /\ lastCall[p].op = "Delete"
           => /\ pc[p] = "done" /\ result[p] = <<lastCall[p].err>>
              /\ calls[p] = Append(OwedCallbacks(p), DeleteCall(desired[p].name))

\* C12: ForceUpdateStatefulSet calls the callback and issues the Delete only
\* after an update rejected as invalid; when the update succeeds it returns
\* success, and when it fails with any other error (not found, conflicts to
\* the last attempt, a failed request) it returns that error wrapped as a
\* failure to update the StatefulSet, without a Delete or a callback call.
C12_DeleteOnlyAfterInvalid ==
  /\ [](\A p \in Procs :
          (IsForce(p) /\ pc[p] = "done" /\ lastCall[p].op \in {"Get", "Update"})
          => /\ calls[p] = <<>>
             /\ lastCall[p].err # ErrInvalid
             /\ result[p] = IF lastCall[p].err = NoErr THEN <<NoErr>>
                            ELSE <<"failed to update StatefulSet", lastCall[p].err>>)
  /\ [][\A p \in Procs :
          (IsForce(p) /\ (calls'[p] # calls[p] \/ (pc'[p] = "delete" /\ pc[p] # "delete")))
          => \/ pc[p] = "delete"
             \/ pc[p] = "update" /\ lastCall'[p].op = "Update"
                  /\ lastCall'[p].err = ErrInvalid]_vars

\* every attempt of the update ended in a conflict and the caller got the
\* conflict wrapped; nothing was deleted
C12_Witness ==
  \E p \in Procs :
    /\ IsForce(p) /\ pc[p] = "done" /\ attempt[p] = DefaultRetrySteps
    /\ result[p] = <<"failed to update StatefulSet", ErrConflict>>
    /\ calls[p] = <<>> /\ ObjName \in present

----------------------------------------------------------------------------
(* Claims on CreateStatefulSetOrPatchLabels *)

IsCreateOrPatch(p) == caller[p] = "CreateStatefulSetOrPatchLabels"

\* what CreateStatefulSetOrPatchLabels does around its Create: the first
\* store call is the Create (no Get, no Update); a Create that succeeded
\* stored the desired labels and ends the call; a Create answered
\* AlreadyExists leads to exactly one Patch; any other error of the Create
\* is returned and no Patch is issued.
CreateThenPatch ==
  /\ [](\A p \in Procs :
          IsCreateOrPatch(p) =>
            /\ seen[p] \subseteq {"Create", "Patch"}
            /\ lastCall[p].op = "none" => pc[p] = "create"
            /\ lastCall[p].op = "Create" =>
                 IF lastCall[p].err = ErrAlreadyExists
                 THEN pc[p] = "patch" /\ calls[p] = <<>>
                 ELSE pc[p] = "done" /\ result[p] = <<lastCall[p].err>>
                        /\ calls[p] = <<>>
            /\ lastCall[p].op = "Patch" =>
                 pc[p] = "done" /\ result[p] = <<lastCall[p].err>>
                   /\ Len(calls[p]) = 1 /\ calls[p][1].call = "Patch")
  /\ [][\A p \in Procs :
          (IsCreateOrPatch(p) /\ pc[p] = "create" /\ pc'[p] = "done"
             /\ lastCall'[p].err = NoErr)
          => store'[ObjName].labels = orig[p].labels]_vars

\* C13 as claimed: CreateStatefulSetOrPatchLabels first attempts a create;
\* after a successful create the stored labels are the desired labels; after
\* AlreadyExists it issues one label patch, after which the labels of the
\* live object equal the labels of the desired object; any other error of
\* the create is returned and no patch is issued.
C13_PatchedLabelsEqualDesired ==
  /\ CreateThenPatch
  /\ [][\A p \in Procs :
          (IsCreateOrPatch(p) /\ pc[p] = "patch" /\ lastCall'[p].op = "Patch"
             /\ lastCall'[p].err = NoErr)
          => store'[ObjName].labels = orig[p].labels]_vars

\* C13 amended: as claimed, but the successful patch merges: the labels of
\* the live object afterwards are its labels before overlaid with the
\* desired labels (a label only the live object has stays); a desired object
\* with a nil label map sends null and clears the labels.
C13_PatchedLabelsMergeDesired ==
  /\ CreateThenPatch
  /\ [][\A p \in Procs :
          (IsCreateOrPatch(p) /\ pc[p] = "patch" /\ lastCall'[p].op = "Patch"
             /\ lastCall'[p].err = NoErr)
          => store'[ObjName].labels =
               IF calls'[p][1].arg[3] = "labels: null" THEN <<>>
               ELSE UnionDesiredWins(store[ObjName].labels, orig[p].labels)]_vars

\* the create found the StatefulSet existing and the patch added the desired
\* label to the one the live object had
C13_Witness ==
  \E p \in Procs :
    /\ IsCreateOrPatch(p) /\ pc[p] = "done" /\ result[p] = <<NoErr>>
    /\ seen[p] = {"Create", "Patch"} /\ lastCall[p].op = "Patch"
    /\ orig[p].labels = With(ExtraKey, "value")
    /\ ObjName \in present
    /\ store[ObjName].labels = [k \in {AppKey, ExtraKey} |->
                                  IF k = AppKey THEN "ksm" ELSE "value"]

\* C14: when CreateStatefulSetOrPatchLabels finds the StatefulSet existing,
\* no step of it changes the spec, the annotations, the owner references or
\* the finalizers of the live object, whatever the desired object holds
\* there: the rejected Create changes nothing and the Patch changes at most
\* the labels (and the version token).
C14_PatchTouchesOnlyLabels ==
  [][\A p \in Procs :
       (IsCreateOrPatch(p) /\ pc'[p] # pc[p]
          /\ (lastCall'[p].op = "Patch"
                \/ (lastCall'[p].op = "Create" /\ lastCall'[p].err = ErrAlreadyExists)))
       => /\ present' = present
          /\ \A n \in present :
               [store'[n] EXCEPT !.labels = store[n].labels, !.rv = store[n].rv]
                 = store[n]
          /\ lastCall'[p].op = "Create" => store' = store]_vars

\* a patch changed the labels of a StatefulSet whose annotations, owner
\* references, finalizers and spec differ from the desired ones, and these
\* are as they were
C14_Witness ==
  \E p \in Procs :
    /\ IsCreateOrPatch(p) /\ pc[p] = "done" /\ result[p] = <<NoErr>>
    /\ lastCall[p].op = "Patch" /\ ObjName \in present
    /\ store[ObjName].rv = 2
    /\ store[ObjName].labels = With(AppKey, "overridden")
    /\ orig[p].annotations = With(AppKey, "overridden")
    /\ store[ObjName].annotations = With(AppKey, "ksm")
    /\ orig[p].owners = <<RefA>> /\ store[ObjName].owners = <<RefB>>
    /\ store[ObjName].finalizers = <<"foregroundDeletion">>
    /\ orig[p].data = "v2" /\ store[ObjName].data = "v1"
    /\ orig[p].tmplAnn = {With(TestKey, "modified")}
    /\ store[ObjName].tmplAnn # orig[p].tmplAnn

----------------------------------------------------------------------------
(* Claims on the finalizer patches *)

\* the JSON pointers of the first entries of the finalizer list
PathOfIndex == <<"/metadata/finalizers/0", "/metadata/finalizers/1",
                 "/metadata/finalizers/2", "/metadata/finalizers/3",
                 "/metadata/finalizers/4">>

\* the position (from 1) of the first entry of list that equals name, 0 when
\* there is none
FirstPosition(list, name) ==
  IF \E i \in 1..Len(list) : list[i] = name
  THEN CHOOSE i \in 1..Len(list) :
         list[i] = name /\ \A j \in 1..Len(list) : list[j] = name => i <= j
  ELSE 0

\* C15: for a list that holds the finalizer name, FinalizerDeletePatch
\* returns exactly two operations in this order: a test that the entry at
\* index i equals the name, then a remove of index i, where i is the first
\* index (from 0) that holds the name; for a list that does not hold the
\* name (the empty list included) it returns no patch (nil); it returns no
\* error.
C15_DeletePatchTestsThenRemovesFirst ==
  \A p \in Procs :
    finCall[p].fn = "FinalizerDeletePatch" =>
      LET list == finCall[p].finalizers
          name == finCall[p].finalizerName
          pos == FirstPosition(list, name)
      IN /\ finCall[p].err = NoErr
         /\ IF pos = 0
            THEN finCall[p].patch = {}
            ELSE finCall[p].patch =
                   {<<[op |-> "test", path |-> PathOfIndex[pos],
                       value |-> "\"" \o name \o "\""],
                      [op |-> "remove", path |-> PathOfIndex[pos]]>>}

\* the name is at the second and third place of the list: the patch names
\* index 1
C15_Witness ==
  \E p \in Procs :
    /\ finCall[p].fn = "FinalizerDeletePatch"
    /\ finCall[p].finalizerName = StatusCleanupFinalizerName
    /\ finCall[p].finalizers = <<"foregroundDeletion", StatusCleanupFinalizerName,
                                 StatusCleanupFinalizerName>>
    /\ \E ops \in finCall[p].patch :
         Len(ops) = 2 /\ ops[2].path = "/metadata/finalizers/1"

\* C16: whatever other actors did to the finalizers between the read of the
\* list and the application of the delete patch built from it, the
\* application either is rejected and leaves the list as it is (always so
\* when the entry at the index of the patch is not the finalizer name any
\* more) or removes exactly the entry at that index, which equals the name,
\* and keeps every other entry in its order; no entry with another name is
\* removed.
C16_DeletePatchRemovesOnlyTheName ==
  [][\A p \in Procs :
       (pc[p] = "applyPatch" /\ pc'[p] = "done"
          /\ finCall[p].fn = "FinalizerDeletePatch")
       => LET name == finCall[p].finalizerName
              at == FirstPosition(finCall[p].finalizers, name)
              live == store[ObjName].finalizers
              after == store'[ObjName].finalizers
              holds == at <= Len(live) /\ live[at] = name
          IN /\ present' = present
             /\ IF lastCall'[p].err = NoErr
                THEN /\ holds
                     /\ Len(after) = Len(live) - 1
                     /\ \A i \in 1..Len(after) :
                          after[i] = IF i < at THEN live[i] ELSE live[i + 1]
                ELSE after = live
             /\ ~holds => lastCall'[p].err # NoErr]_vars

\* the list changed after the read (another finalizer was added, the name
\* kept its index) and the patch removed the name and nothing else
C16_Witness ==
  \E p \in Procs :
    /\ finCall[p].fn = "FinalizerDeletePatch" /\ pc[p] = "done"
    /\ finCall[p].finalizerName = StatusCleanupFinalizerName
    /\ finCall[p].finalizers = <<"example.com/other", StatusCleanupFinalizerName>>
    /\ lastCall[p].op = "Patch" /\ lastCall[p].err = NoErr
    /\ store[ObjName].finalizers = <<"example.com/other", "foregroundDeletion">>
    /\ store[ObjName].rv = 3

\* the list shifted after the read and the patch was rejected
C16_WitnessRejected ==
  \E p \in Procs :
    /\ finCall[p].fn = "FinalizerDeletePatch" /\ pc[p] = "done"
    /\ finCall[p].finalizers = <<"example.com/other", StatusCleanupFinalizerName>>
    /\ finCall[p].finalizerName = StatusCleanupFinalizerName
    /\ lastCall[p].op = "Patch" /\ lastCall[p].err = ErrInvalid
    /\ store[ObjName].finalizers = <<StatusCleanupFinalizerName, "example.com/other">>

\* C17: FinalizerAddPatch returns an empty patch when the name is in the
\* list, one add operation that sets the whole finalizers field to the list
\* [name] when the list is empty, and one add operation that appends the
\* name at the end of the list otherwise; it returns no error.
C17_AddPatchByCase ==
  \A p \in Procs :
    finCall[p].fn = "FinalizerAddPatch" =>
      LET list == finCall[p].finalizers
          name == finCall[p].finalizerName
      IN /\ finCall[p].err = NoErr
         /\ finCall[p].patch =
              IF \E i \in 1..Len(list) : list[i] = name THEN {<<>>}
              ELSE IF list = <<>>
              THEN {<<[op |-> "add", path |-> "/metadata/finalizers",
                       value |-> "[\"" \o name \o "\"]"]>>}
              ELSE {<<[op |-> "add", path |-> "/metadata/finalizers/-",
                       value |-> "\"" \o name \o "\""]>>}

\* the patch built from the empty list was applied and the list is [name]
C17_Witness ==
  \E p \in Procs :
    /\ finCall[p].fn = "FinalizerAddPatch" /\ finCall[p].finalizers = <<>>
    /\ finCall[p].finalizerName = StatusCleanupFinalizerName
    /\ pc[p] = "done" /\ lastCall[p].op = "Patch" /\ lastCall[p].err = NoErr
    /\ store[ObjName].finalizers = <<StatusCleanupFinalizerName>>

----------------------------------------------------------------------------
(* Claims on IsAllowed *)

\* the namespaces the loops of the call run over
EffectiveNamespaces ==
  IF isaArgs.namespaces = <<>> THEN <<NamespaceAll>> ELSE isaArgs.namespaces

\* the combinations of the call: <<namespace, attribute, verb>> indexes
Combinations ==
  UNION {{<<n, r, v>> : v \in 1..Len(isaArgs.attributes[r].Verbs)} :
           n \in 1..Len(EffectiveNamespaces), r \in 1..Len(isaArgs.attributes)}

\* the combination the n-th submitted check is for
CombinationOf(n) ==
  CHOOSE c \in Combinations :
    Cardinality({d \in Combinations : Before(d, c)}) = n - 1

\* the positions of the submitted checks that were denied
Denied == {i \in 1..Len(submitted) : submitted[i].answer = "denied"}

\* C18: IsAllowed called with no requirement returns an error and reports
\* not allowed, without submitting a permission check, for every namespace
\* list.
C18_NoRequirementIsAnError ==
  (isaPc = "done" /\ isaArgs.attributes = <<>>)
  => /\ isaResult.err # NoErr
     /\ isaResult.allowed = FALSE
     /\ isaResult.missing = <<>>
     /\ submitted = <<>>

\* a call with two namespaces and no requirement has returned
C18_Witness ==
  /\ isaPc = "done" /\ isaArgs.attributes = <<>>
  /\ isaArgs.namespaces = <<"default", "monitoring">>
  /\ isaResult.err = "resource attributes must not be empty"

\* C19: when the submission of a permission check fails (a failed request),
\* IsAllowed stops at that check: no later check is submitted, it reports not
\* allowed with that error, and the list of denials it returns is empty even
\* when earlier checks were denied.
C19_FailedRequestAborts ==
  \A i \in 1..Len(submitted) :
    submitted[i].answer = ErrOther
    => /\ i = Len(submitted)
       /\ isaPc = "done"
       /\ isaResult = [allowed |-> FALSE, missing |-> <<>>, err |-> ErrOther]

\* the first check was denied and the request of the second failed
C19_Witness ==
  /\ Len(submitted) = 2 /\ Cardinality(Combinations) > 2
  /\ submitted[1].answer = "denied" /\ submitted[2].answer = ErrOther
  /\ missingPermissions # <<>>
  /\ isaPc = "done" /\ isaResult.missing = <<>> /\ isaResult.err = ErrOther

\* C20: when no request fails, IsAllowed has, when it returns, submitted a
\* check for every (namespace, requirement, verb) combination, also after a
\* denial; the list it returns has one entry for each denied combination, in
\* the order of the checks, and none for an allowed one; it reports allowed
\* exactly when that list is empty, and returns no error.
C20_EveryCombinationChecked ==
  (/\ isaPc = "done" /\ isaArgs.attributes # <<>>
   /\ \A i \in 1..Len(submitted) : submitted[i].answer # ErrOther)
  => /\ Len(submitted) = Cardinality(Combinations)
     /\ isaResult.err = NoErr
     /\ Len(isaResult.missing) = Cardinality(Denied)
     /\ \A i \in Denied :
          LET c == CombinationOf(i)
              ra == isaArgs.attributes[c[2]]
          IN isaResult.missing[Cardinality({j \in Denied : j <= i})]
               = MissingPermission(EffectiveNamespaces[c[1]], ra, ra.Verbs[c[3]])
     /\ isaResult.allowed = (isaResult.missing = <<>>)

\* the first of six checks was denied, the five after it were submitted and
\* allowed
C20_Witness ==
  /\ isaPc = "done" /\ Len(submitted) = 6
  /\ submitted[1].answer = "denied"
  /\ \A i \in 2..6 : submitted[i].answer = "allowed"
  /\ isaResult.allowed = FALSE
  /\ isaResult.missing =
       <<"missing \"list\" permission on resource \"pods\" (group: \"\") for namespace \"default\"">>

\* the checks of one namespace, in the order requirement then verb
RECURSIVE ChecksOf(_, _)
ChecksOf(ns, attributes) ==
  IF attributes = <<>> THEN <<>>
  ELSE [k \in 1..Len(Head(attributes).Verbs) |->
          [ns |-> ns, ra |-> Head(attributes), verb |-> Head(attributes).Verbs[k]]]
         \o ChecksOf(ns, Tail(attributes))

\* the checks of a call, namespace by namespace
RECURSIVE ChecksInOrder(_, _)
ChecksInOrder(namespaces, attributes) ==
  IF namespaces = <<>> THEN <<>>
  ELSE ChecksOf(Head(namespaces), attributes) \o ChecksInOrder(Tail(namespaces), attributes)

\* the sum of the verb counts of the requirements
RECURSIVE VerbCount(_)
VerbCount(attributes) ==
  IF attributes = <<>> THEN 0
  ELSE Len(Head(attributes).Verbs) + VerbCount(Tail(attributes))

\* the number of namespaces the call runs over: an empty list counts as the
\* single all-namespaces value
NamespaceCount == IF Len(isaArgs.namespaces) = 0 THEN 1 ELSE Len(isaArgs.namespaces)

\* the checks submitted so far are the first ones of the nested order
SubmittedInOrder ==
  LET expected == ChecksInOrder(IF isaArgs.namespaces = <<>> THEN <<NamespaceAll>>
                                ELSE isaArgs.namespaces, isaArgs.attributes)
  IN /\ Len(submitted) <= Len(expected)
     /\ \A i \in 1..Len(submitted) :
          LET a == submitted[i].attributes
              e == expected[i]
          IN /\ a.Verb = e.verb
             /\ a.Resource = e.ra.Resource /\ a.Name = e.ra.Name
             /\ a.Group = e.ra.Group /\ a.Version = e.ra.Version
             /\ a.Namespace \in {e.ns} \cup (IF e.ns = NamespaceAll THEN {e.ra.Name} ELSE {})

\* C21: IsAllowed submits its checks one at a time (each step adds one check
\* after those already submitted), in the nested order namespace, then
\* requirement, then verb; when it returns without a failed request it has
\* submitted exactly (number of namespaces) times (sum of the verb counts)
\* checks, an empty namespace list counting as the single all-namespaces
\* value.
C21_ChecksInNestedOrder ==
  /\ []SubmittedInOrder
  /\ [][submitted' # submitted
          => /\ Len(submitted') = Len(submitted) + 1
             /\ SubSeq(submitted', 1, Len(submitted)) = submitted]_vars
  /\ []((/\ isaPc = "done" /\ isaArgs.attributes # <<>>
         /\ \A i \in 1..Len(submitted) : submitted[i].answer # ErrOther)
        => Len(submitted) = NamespaceCount * VerbCount(isaArgs.attributes))

\* two namespaces and two requirements with three verbs: the six checks run
\* over the first namespace, then over the second
C21_Witness ==
  /\ isaPc = "done"
  /\ isaArgs = [namespaces |-> <<"default", "monitoring">>,
                attributes |-> <<RaPods, RaNamespace>>]
  /\ Len(submitted) = 6
  /\ [i \in 1..6 |-> submitted[i].attributes.Namespace]
       = <<"default", "default", "default", "monitoring", "monitoring", "monitoring">>
  /\ [i \in 1..6 |-> submitted[i].attributes.Verb]
       = <<"list", "watch", "get", "list", "watch", "get">>

\* an empty namespace list: one round of checks, for all namespaces
C21_WitnessAllNamespaces ==
  /\ isaPc = "done" /\ isaArgs.namespaces = <<>>
  /\ isaArgs.attributes = <<RaSecret, RaPrometheus, RaPods>>
  /\ Len(submitted) = 3
  /\ \A i \in 1..3 : submitted[i].attributes.Namespace = NamespaceAll

\* C22: the namespace field of a submitted check is the iterated namespace,
\* except for a check on the core-group resource "namespaces" with a target
\* name and the all-namespaces value, whose namespace field is the target
\* name; no other check has its namespace field rewritten.
C22_NamespaceFieldRewrittenOnlyForNamespaces ==
  \A i \in 1..Len(submitted) :
    LET c == CombinationOf(i)
        ns == EffectiveNamespaces[c[1]]
        ra == isaArgs.attributes[c[2]]
        a == submitted[i].attributes
    IN IF ra.Group = "" /\ ra.Resource = "namespaces" /\ ra.Name # "" /\ ns = NamespaceAll
       THEN a.Namespace = ra.Name
       ELSE a.Namespace = ns

\* a check on the namespace "default" for all namespaces was framed in
\* "default"
C22_Witness ==
  /\ isaArgs = [namespaces |-> <<>>, attributes |-> <<RaPods, RaNamespace>>]
  /\ Len(submitted) = 3
  /\ submitted[3].attributes.Resource = "namespaces"
  /\ submitted[3].attributes.Namespace = "default"
  /\ submitted[1].attributes.Namespace = NamespaceAll

\* a check on the namespace "default" for the namespace "monitoring", and a
\* check on a named secret for all namespaces, kept their namespace
C22_WitnessKept ==
  \/ /\ isaArgs = [namespaces |-> <<"default", "monitoring">>,
                    attributes |-> <<RaPods, RaNamespace>>]
     /\ Len(submitted) = 6
     /\ submitted[6].attributes.Name = "default"
     /\ submitted[6].attributes.Namespace = "monitoring"
  \/ /\ isaArgs = [namespaces |-> <<NamespaceAll>>, attributes |-> <<RaPrometheus, RaSecret>>]
     /\ Len(submitted) = 1
     /\ submitted[1].attributes.Name = "tls"
     /\ submitted[1].attributes.Namespace = NamespaceAll

----------------------------------------------------------------------------
(* Claims on the ResourceNamer *)

\* the calls made so far
NamerCalled == {c \in NamerCallers : rnCalls[c] # NoNamerCall}

\* a DNS-1123 label: at most 63 characters, lowercase letters, digits and
\* hyphens, a letter or digit first and last
ValidLabel(l) ==
  /\ Len(l) >= 1 /\ Len(l) <= 63
  /\ \A i \in 1..Len(l) : l[i] \in LowerCase \cup Digits \cup {"-"}
  /\ l[1] # "-" /\ l[Len(l)] # "-"

\* the part of the sanitized name UniqueDNS1123Label keeps
KeptPart(prefix, name) ==
  LET sanitized == sanitizedLabel(prefix, name)
  IN IF Len(sanitized) > 54 THEN SubSeq(sanitized, 1, 54) ELSE sanitized

\* C23: every call of DNS1123Label and of UniqueDNS1123Label returns, and it
\* returns either an error or a valid label; a name whose sanitized form is
\* empty yields an error.
C23_ErrorOrValidLabel ==
  \A c \in NamerCalled :
    /\ ~rnCalls[c].out.panic
    /\ rnCalls[c].out.err # NoErr \/ ValidLabel(rnCalls[c].out.name)
    /\ sanitizedLabel(rnCalls[c].prefix, rnCalls[c].name) = <<>>
         => rnCalls[c].out.err # NoErr

\* C24: a namer built with a non-empty prefix and a namer built with that
\* prefix followed by hyphens return the same result for the same name, from
\* UniqueDNS1123Label and from DNS1123Label.
C24_TrailingHyphensOfPrefixIgnored ==
  \A c, d \in NamerCalled :
    (/\ rnCalls[c].fn = rnCalls[d].fn /\ rnCalls[c].name = rnCalls[d].name
     /\ rnCalls[c].prefix # <<>>
     /\ \E k \in 0..Len(rnCalls[d].prefix) :
          rnCalls[d].prefix = rnCalls[c].prefix \o Repeat("-", k))
    => rnCalls[c].out = rnCalls[d].out

\* the two namers differ by two hyphens at the end of the prefix and return
\* the same label
C24_Witness ==
  /\ rnCalls["n1"] # NoNamerCall /\ rnCalls["n2"] # NoNamerCall
  /\ rnCalls["n1"].fn = "UniqueDNS1123Label" /\ rnCalls["n2"].fn = "UniqueDNS1123Label"
  /\ rnCalls["n1"].prefix = <<"w", "i", "t", "h", "-", "p", "r", "e", "f", "i", "x">>
  /\ rnCalls["n2"].prefix = <<"w", "i", "t", "h", "-", "p", "r", "e", "f", "i", "x", "-", "-">>
  /\ rnCalls["n1"].name = <<"n", "a", "m", "e">> /\ rnCalls["n2"].name = <<"n", "a", "m", "e">>
  /\ rnCalls["n1"].out.err = NoErr
  /\ rnCalls["n2"].out.name
       = <<"w", "i", "t", "h", "-", "p", "r", "e", "f", "i", "x", "-", "n", "a", "m", "e",
           "-", "6", "c", "5", "f", "7", "b", "2", "e">>

\* the same for DNS1123Label, with a prefix made of a hyphen only
C24_WitnessPlain ==
  /\ rnCalls["n1"] # NoNamerCall /\ rnCalls["n2"] # NoNamerCall
  /\ rnCalls["n1"].fn = "DNS1123Label" /\ rnCalls["n2"].fn = "DNS1123Label"
  /\ rnCalls["n1"].prefix = <<"-">> /\ rnCalls["n2"].prefix = <<"-", "-">>
  /\ rnCalls["n1"].name = <<"N", "A", "M", "E">> /\ rnCalls["n2"].name = <<"N", "A", "M", "E">>
  /\ rnCalls["n2"].out = [panic |-> FALSE, name |-> <<"n", "a", "m", "e">>, err |-> NoErr]

\* two calls of UniqueDNS1123Label of one namer with different names whose
\* sanitized forms agree on the part kept
SameKeptPart(c, d) ==
  /\ rnCalls[c] # NoNamerCall /\ rnCalls[d] # NoNamerCall
  /\ rnCalls[c].fn = "UniqueDNS1123Label" /\ rnCalls[d].fn = "UniqueDNS1123Label"
  /\ rnCalls[c].prefix = rnCalls[d].prefix
  /\ rnCalls[c].name # rnCalls[d].name
  /\ KeptPart(rnCalls[c].prefix, rnCalls[c].name) = KeptPart(rnCalls[d].prefix, rnCalls[d].name)

\* the first eight digits of the hexadecimal form of the hash of the name
FirstDigits(name) == SubSeq(SprintfHex(Sum64(name)), 2, 9)

C25_WitnessSameOutput ==
  /\ SameKeptPart("n1", "n2")
  /\ Len(rnCalls["n1"].name) = 58
  /\ rnCalls["n1"].out.err = NoErr
  /\ rnCalls["n1"].out = rnCalls["n2"].out

\* C26: for every hash value the suffix UniqueDNS1123Label appends has 9
\* characters: a hyphen and the 8 lowest-order hexadecimal digits of the hash
\* value.
C26_SuffixIsEightLowestDigits ==
  \A c \in NamerCalled :
    rnCalls[c].fn = "UniqueDNS1123Label"
    => /\ ~rnCalls[c].out.panic
       /\ rnCalls[c].out.err = NoErr
            => SubSeq(rnCalls[c].out.name, Len(rnCalls[c].out.name) - 8,
                      Len(rnCalls[c].out.name))
                 = <<"-">> \o SubSeq(Sum64(rnCalls[c].name), 9, 16)

----------------------------------------------------------------------------
(* Claims on EnsureCustomGoverningService *)

\* the service the call names, in the namespace of its client, before the call
NamedService(call) ==
  IF <<call.clientNamespace, call.serviceName>> \in ServiceKeys
  THEN services[<<call.clientNamespace, call.serviceName>>]
  ELSE Absent

\* every key of the selector is a key of the labels with the same value
SelectorInLabels(selector, given) == selector \subseteq given

\* C27: a call of EnsureCustomGoverningService returns an error when the
\* named service does not exist in the namespace of the client, an error
\* when the service exists and its selector does not match the given labels,
\* and success when the service exists (the Get is answered) and every key
\* and value of its selector is in the given labels; a call writes nothing
\* to the store.
C27_GoverningServiceChecked ==
  [][(gsCall' # gsCall) =>
       /\ services' = services /\ store' = store /\ present' = present
       /\ LET call == gsCall'
              svc == NamedService(call)
          IN /\ svc = Absent => call.result # <<NoErr>>
             /\ \A v \in svc :
                  /\ ~SelectorInLabels(v.selector, call.selectorLabels)
                       => call.result # <<NoErr>>
                  /\ (SelectorInLabels(v.selector, call.selectorLabels)
                        /\ call.answer = NoErr)
                       => call.result = <<NoErr>>]_vars

\* the service selects on one of the four labels of the pods: success
C27_Witness ==
  /\ gsCall.made /\ gsCall.result = <<NoErr>>
  /\ gsCall.clientNamespace = "test-ns" /\ gsCall.serviceName = "test-svc"
  /\ gsCall.selectorLabels = SelectorLabels
  /\ services[<<"test-ns", "test-svc">>] = {[selector |-> {<<"k8sutil", "test-k8sutil">>}]}

\* the service exists in the other namespace only: not found
C27_WitnessOtherNamespace ==
  /\ gsCall.made /\ gsCall.answer = ErrNotFound
  /\ gsCall.result = <<"failed to get custom governing service test-ns/test-svc", ErrNotFound>>
  /\ gsCall.clientNamespace = "test-ns" /\ gsCall.serviceName = "test-svc"
  /\ services[<<"test-ns", "test-svc">>] = Absent
  /\ services[<<"wrong-ns", "test-svc">>] = {[selector |-> SelectorLabels]}

\* the selector has other values than the labels: error
C27_WitnessNoMatch ==
  /\ gsCall.made /\ gsCall.answer = NoErr
  /\ gsCall.result = <<"custom governing service test-ns/test-svc does not select pods">>
  /\ gsCall.selectorLabels = SelectorLabels
  /\ \E v \in services[<<"test-ns", "test-svc">>] : <<"k8sutil", "different-name">> \in v.selector

----------------------------------------------------------------------------
(* Claims on mergeOwnerReferences *)

\* C28: the owner references an Update of CreateOrUpdateService carries hold
\* each reference once: a desired reference that equals a reference read in
\* every field is not appended, and merging the same desired references into
\* the list again (the next reconcile) leaves its length unchanged.
C28_UnionHoldsEachReferenceOnce ==
  \A p \in Procs :
    (kind = "Service" /\ lastCall[p].op = "Update" /\ attempt[p] = 1) =>
      LET o == RefValues(observed[p].owners)
          d == RefValues(orig[p].owners)
          r == lastCall[p].obj.owners
          again == mergeOwnerReferences(DecodedRefs(r, attempt[p] + 1), orig[p].owners)
      IN /\ (\A i, j \in 1..Len(o) : i # j => o[i] # o[j])
              /\ (\A i, j \in 1..Len(d) : i # j => d[i] # d[j])
            => \A i, j \in 1..Len(r) : i # j => RefValue(r[i]) # RefValue(r[j])
         /\ \A i \in Len(o) + 1..Len(r) : RefValue(r[i]) \notin Range(o)
         /\ Len(again) = Len(r)

----------------------------------------------------------------------------
(* Claims on invocations for different objects *)

\* the identity an invocation reconciles: the name of the object given to
\* it, or the name the store generates for it
Identity(p) == IF orig[p].name = "" THEN GenNameOf(p) ELSE orig[p].name

\* what an invocation holds and what the store holds for its object
OwnState(p) ==
  <<pc[p], orig[p], desired[p], observed[p], attempt[p], seen[p], lastCall[p],
    result[p], errDetails[p], calls[p], caller[p], onDeleteFunc[p]>>

OwnObject(p) == <<Identity(p) \in present, store[Identity(p)]>>

\* the invocation q takes the step
Steps(q) == <<pc[q], attempt[q]>>' # <<pc[q], attempt[q]>>

\* the name the next store call of the invocation carries
NextCallName(p) ==
  IF pc[p] = "create" /\ desired[p].name = "" THEN GenNameOf(p) ELSE desired[p].name

\* the object written by the last store call of p is the one the store holds,
\* under the version the store gave it
HoldsWritten(p) ==
  LET o == store[Identity(p)]
  IN /\ Identity(p) \in present
     /\ [o EXCEPT !.rv = 0] =
          [Decoded(lastCall[p].obj, 0) EXCEPT !.name = Identity(p), !.rv = 0]

\* C29: two invocations for different objects, interleaved in any order, do
\* not affect each other: every store call of an invocation names its own
\* object, a step of the other invocation changes neither what the invocation
\* holds nor its object in the store, and the invocation runs as it does
\* alone: no write of it is rejected as a conflict or as already existing,
\* its closure runs once, and the object it wrote stays as it wrote it.
C29_DisjointInvocationsIndependent ==
  /\ [](\A p \in Procs :
         /\ pc[p] \in {"get", "create", "update"} => NextCallName(p) = Identity(p)
         /\ lastCall[p].err \notin {ErrConflict, ErrAlreadyExists}
         /\ attempt[p] <= 1
         /\ (lastCall[p].op \in {"Create", "Update"} /\ lastCall[p].err = NoErr)
              => HoldsWritten(p))
  /\ [][\A p, q \in Procs :
          (p # q /\ Steps(q)) =>
            /\ OwnState(p)' = OwnState(p)
            /\ OwnObject(p)' = OwnObject(p)]_vars
  /\ [][\A n \in Names :
          (store'[n] # store[n] \/ (n \in present') # (n \in present)) =>
            \E p \in Procs : Steps(p) /\ n = Identity(p)']_vars

\* p1 updated its object and p2 created the other one, in this order or the
\* other: both succeeded and the store holds both objects as written
C29_Witness ==
  /\ pc["p1"] = "done" /\ pc["p2"] = "done"
  /\ lastCall["p1"].op = "Update" /\ lastCall["p1"].err = NoErr
  /\ lastCall["p2"].op = "Create" /\ lastCall["p2"].err = NoErr
  /\ store[ObjName].rv = 3 /\ store[OtherName].rv = 2
  /\ store[ObjName].name = ObjName /\ store[OtherName].name = OtherName

\* two EndpointSlices created without a name: two generated names
C29_WitnessGenerated ==
  /\ kind = "EndpointSlice" /\ present = GenNames
  /\ \A p \in Procs : lastCall[p].op = "Create" /\ orig[p].name = ""

----------------------------------------------------------------------------
(* Claims on the version comparison of Update *)

\* the object of p was written after the Get of the attempt p is in
WrittenSinceGet(p) ==
  \/ desired[p].name \notin present
  \/ Decoded(store[desired[p].name], attempt[p]) # observed[p]

\* the step is an Update of p that the store accepts
UpdateAccepted(p) ==
  /\ pc[p] = "update" /\ pc'[p] # "update"
  /\ lastCall'[p].op = "Update" /\ lastCall'[p].err = NoErr

\* C30: the store accepts the Update of an attempt only when nobody wrote the
\* object between the Get of the attempt and the Update: while the object was
\* written since the Get, no answer to the Update is a success, and every
\* Update that is accepted carries the version read and replaces the very
\* object read (its labels, annotations and spec are the ones the Get saw).
C30_UpdateAcceptedOnlyOnVersionRead ==
  /\ [](\A p \in Procs :
         (pc[p] = "update" /\ WrittenSinceGet(p)) =>
           \A ans \in UpdateAnswers(desired[p]) : ans.err # NoErr)
  /\ [][\A p \in Procs :
          UpdateAccepted(p) =>
            /\ lastCall'[p].obj.rv = observed[p].rv
            /\ ~WrittenSinceGet(p)
            /\ store[desired[p].name].rv = observed[p].rv
            /\ store[desired[p].name].labels = observed[p].labels
            /\ store[desired[p].name].annotations = observed[p].annotations
            /\ store[desired[p].name].data = observed[p].data
            /\ store[desired[p].name].tmplAnn = observed[p].tmplAnn]_vars

\* another actor changed the labels between the Get and the Update: the
\* Update was rejected as a conflict, and the Update of the next attempt,
\* which read the change, was accepted
C30_Witness ==
  /\ pc["p1"] = "done" /\ attempt["p1"] = 2
  /\ lastCall["p1"].op = "Update" /\ lastCall["p1"].err = NoErr
  /\ extLeft = MaxExtWrites - 1
  /\ observed["p1"].rv = 2 /\ store[ObjName].rv = 3
  /\ observed["p1"].labels # <<>>

----------------------------------------------------------------------------
(* Claims on what a retry writes *)

\* every entry of the map m is an entry of a or of b
EntriesFrom(m, a, b) ==
  \A k \in DOMAIN m :
    \/ k \in DOMAIN a /\ m[k] = a[k]
    \/ k \in DOMAIN b /\ m[k] = b[k]

\* C31: an Update accepted after one or more conflict retries carries only
\* labels, annotations and owner references of the caller's original desired
\* object and of the object read in the final attempt: an entry that an
\* earlier attempt read and another actor removed before the final read is
\* not written back.
C31_RetryWritesOnlyDesiredAndLastRead ==
  \A p \in Procs :
    (lastCall[p].op = "Update" /\ lastCall[p].err = NoErr /\ attempt[p] >= 2) =>
      /\ EntriesFrom(lastCall[p].obj.labels, orig[p].labels, observed[p].labels)
      /\ EntriesFrom(lastCall[p].obj.annotations, orig[p].annotations,
                     observed[p].annotations)
      /\ Range(RefValues(lastCall[p].obj.owners)) \subseteq
           Range(RefValues(orig[p].owners)) \cup Range(RefValues(observed[p].owners))

----------------------------------------------------------------------------
(* Claims on concurrent finalizer patches *)

\* how often name is in list
Occurrences(list, name) == Cardinality({i \in 1..Len(list) : list[i] = name})

\* C32: the application of a patch that FinalizerAddPatch returned removes no
\* finalizer from the live object, whatever other actors did between the
\* read of the list (the empty list included) and the application: every
\* finalizer on the object before the application is on it afterwards, as
\* often as before.
C32_AddPatchRemovesNoFinalizer ==
  [][\A p \in Procs :
       (pc[p] = "applyPatch" /\ pc'[p] = "done" /\ finCall[p].fn = "FinalizerAddPatch")
       => \A n \in FinalizerNames :
            Occurrences(store'[ObjName].finalizers, n)
              >= Occurrences(store[ObjName].finalizers, n)]_vars

\* p applied the add patch it built for name
AddApplied(p, name) ==
  /\ finCall[p].fn = "FinalizerAddPatch" /\ finCall[p].finalizerName = name
  /\ pc[p] = "done" /\ lastCall[p].op = "Patch" /\ lastCall[p].err = NoErr

\* C33: when two actors each read the finalizer list, each build an add
\* patch for the same name from what they read, and both patches are
\* applied, in any order, the name is on the live object exactly once.
C33_TwoAddPatchesOneFinalizer ==
  \A name \in FinalizerNames :
    (\A p \in Procs : AddApplied(p, name)) =>
      Occurrences(store[ObjName].finalizers, name) = 1

----------------------------------------------------------------------------
(* Claims on repeated invocations *)

\* C34: CreateOrUpdateSecret and CreateOrUpdateConfigMap are idempotent at the
\* store: after an invocation has returned success, and while no other actor
\* writes the object, a second invocation with the same desired object
\* issues no Create and no Update and leaves the stored object and its
\* version token as they are.
C34_SecondInvocationWritesNothing ==
  /\ [](pc["p2"] \notin {"create", "update"} /\ seen["p2"] \subseteq {"Get"})
  /\ [][(<<pc["p2"], attempt["p2"]>>' # <<pc["p2"], attempt["p2"]>>)
          => UNCHANGED <<present, store, lastRV>>]_vars

\* the first invocation updated the stored object after a conflict, the
\* second read it, found it equal and returned success
C34_Witness ==
  /\ pc["p2"] = "done" /\ result["p2"] = <<NoErr>> /\ seen["p2"] = {"Get"}
  /\ lastCall["p1"].op = "Update" /\ attempt["p1"] = 2
  /\ store[ObjName].rv = 3 /\ observed["p2"].rv = 3

----------------------------------------------------------------------------
(* Claims on the progress of an invocation *)

\* the writes other actors made so far
ExtWrites == MaxExtWrites - extLeft

\* the invocation returned an error that is no conflict
OtherErrorReturned(p) == pc[p] = "done" /\ result[p] \notin {<<NoErr>>, <<ErrConflict>>}

\* the step is a Create or an Update of p that the store accepts
WriteAccepted(p) ==
  /\ pc[p] \in {"create", "update"} /\ pc'[p] \notin {"create", "update"}
  /\ lastCall'[p].op \in {"Create", "Update"} /\ lastCall'[p].err = NoErr

\* C35: an invocation on an existing object returns, and it returns success
\* unless the store answered with an error that is no conflict or other
\* actors made as many writes as the retry has attempts; the write the store
\* accepts stores the spec of the desired object (the fields the closures
\* carry over from the object read are stored as they were sent).
C35_EventuallySucceeds ==
  /\ <>(/\ pc["p1"] = "done"
        /\ \/ result["p1"] = <<NoErr>>
           \/ OtherErrorReturned("p1")
           \/ ExtWrites >= DefaultRetrySteps)
  /\ [][\A p \in Procs :
          WriteAccepted(p) =>
            LET n == IF lastCall'[p].obj.name = "" THEN GenNameOf(p)
                     ELSE lastCall'[p].obj.name
            IN /\ n \in present'
               /\ store'[n].data = orig[p].data
               /\ store'[n].immut = lastCall'[p].obj.immut
               /\ store'[n].tmplAnn = lastCall'[p].obj.tmplAnn]_vars

\* four writes of other actors made four Updates conflict and the Update of
\* the fifth attempt was accepted
C35_Witness ==
  /\ pc["p1"] = "done" /\ result["p1"] = <<NoErr>>
  /\ attempt["p1"] = DefaultRetrySteps /\ ExtWrites = DefaultRetrySteps - 1
  /\ lastCall["p1"].op = "Update" /\ lastCall["p1"].err = NoErr
  /\ store[ObjName].data = "v2" /\ orig["p1"].data = "v2"

----------------------------------------------------------------------------
(* Claims on the pod-template annotations *)

\* the entries of a template annotation field whose keys do not start with
\* kubectl.kubernetes.io/
OwnedAnnotations(opt) ==
  LET m == MapOf(opt)
  IN [k \in {x \in DOMAIN m : ~HasPrefix(x, KubectlPrefix)} |-> m[k]]

\* C36: when the Update of updateStatefulSet is accepted, the pod-template
\* annotations of the stored object whose keys do not start with
\* kubectl.kubernetes.io/ are exactly those of the desired object: an
\* annotation of the stored object that the desired object omits is removed,
\* one that it changes takes the desired value.
C36_OwnedTemplateAnnotationsAreDesired ==
  [][\A p \in Procs :
       (kind = "StatefulSet" /\ UpdateAccepted(p)) =>
         OwnedAnnotations(store'[ObjName].tmplAnn) = OwnedAnnotations(orig[p].tmplAnn)]_vars

\* the stored template had test-key and the restart marker, the desired one
\* an empty map: test-key is removed, the marker stays
C36_Witness ==
  /\ kind = "StatefulSet" /\ pc["p1"] = "done"
  /\ lastCall["p1"].op = "Update" /\ lastCall["p1"].err = NoErr
  /\ orig["p1"].tmplAnn = {<<>>}
  /\ observed["p1"].tmplAnn = {[k \in {RestartKey, TestKey} |-> "yesterday"]}
  /\ store[ObjName].tmplAnn = {With(RestartKey, "yesterday")}

\* the desired template changes test-key: the stored one takes the value
C36_WitnessChanged ==
  /\ kind = "StatefulSet" /\ pc["p1"] = "done"
  /\ lastCall["p1"].op = "Update" /\ lastCall["p1"].err = NoErr
  /\ orig["p1"].tmplAnn = {With(TestKey, "modified")}
  /\ TestKey \in DOMAIN MapOf(observed["p1"].tmplAnn)
  /\ MapOf(store[ObjName].tmplAnn)[TestKey] = "modified"

----------------------------------------------------------------------------
(* Claims on CreateOrUpdateEndpointSlice *)

\* C37: CreateOrUpdateEndpointSlice with a desired object without a name
\* issues a Create and no Get and no Update, in every attempt; with a name
\* it reads first, creates only after the read found nothing, and otherwise
\* updates with the metadata merged from the object read.
C37_EndpointSliceWithoutNameOnlyCreates ==
  /\ [](\A p \in Procs :
         (kind = "EndpointSlice" /\ pc[p] \notin {"idle", "off"}) =>
           IF orig[p].name = ""
           THEN /\ pc[p] \in {"create", "done"}
                /\ seen[p] \subseteq {"Create"}
                /\ lastCall[p].op \in {"none", "Create"}
           ELSE /\ pc[p] \in {"create", "update"} => "Get" \in seen[p]
                /\ (pc[p] = "done" /\ lastCall[p].op \in {"Create", "Update"})
                     => "Get" \in seen[p]
                /\ lastCall[p].op = "Update" =>
                     /\ lastCall[p].obj.rv = observed[p].rv
                     /\ \A k \in DOMAIN observed[p].labels :
                          k \in DOMAIN lastCall[p].obj.labels
                     /\ \A k \in DOMAIN observed[p].annotations :
                          k \in DOMAIN lastCall[p].obj.annotations)
  /\ [][\A p \in Procs :
          (kind = "EndpointSlice" /\ pc[p] = "get") =>
            /\ pc'[p] = "create" => lastCall'[p].err = ErrNotFound
            /\ pc'[p] = "update" => lastCall'[p].err = NoErr]_vars

\* an EndpointSlice without a name was created under a generated name while
\* an object with the name of the other calls exists
C37_Witness ==
  /\ kind = "EndpointSlice" /\ orig["p1"].name = "" /\ pc["p1"] = "done"
  /\ seen["p1"] = {"Create"} /\ lastCall["p1"].err = NoErr
  /\ present = {ObjName, "gen-p1"}

\* with a name: the read found nothing and the object was created
C37_WitnessNamed ==
  /\ kind = "EndpointSlice" /\ orig["p1"].name = ObjName /\ pc["p1"] = "done"
  /\ seen["p1"] = {"Get", "Create"} /\ lastCall["p1"].err = NoErr

----------------------------------------------------------------------------
(* Claims on what IsAllowed reports *)

\* C38: IsAllowed reports allowed only when at least one permission check
\* was submitted and every submitted check was answered allowed: a call whose
\* requirements all have an empty verb list does not report allowed.
C38_AllowedNeedsAnAllowedCheck ==
  (isaPc = "done" /\ isaResult.allowed) =>
    /\ Len(submitted) >= 1
    /\ \A i \in 1..Len(submitted) : submitted[i].answer = "allowed"

----------------------------------------------------------------------------
(* Claims on an invalid rejection without details *)

\* C39: whatever details the invalid rejection (422, reason Invalid) of the
\* update carries, none included, ForceUpdateStatefulSet never terminates
\* abnormally: it calls the callback when one was given, with an empty reason
\* when the rejection names no cause, and goes on to the foreground Delete.
C39_InvalidWithoutDetailsCompletes ==
  \A p \in Procs :
    IsForce(p) =>
      /\ pc[p] # "panic"
      /\ (lastCall[p].op = "Update" /\ lastCall[p].err = ErrInvalid) =>
           /\ pc[p] = "delete"
           /\ onDeleteFunc[p] # "nil" =>
                /\ Len(calls[p]) = 1
                /\ MapOf(errDetails[p]) = <<>> => calls[p] = <<OnDeleteCall("")>>

----------------------------------------------------------------------------
(* Claims on the errors of DNS1123Label *)

\* C40: DNS1123Label returns an error exactly when the sanitized form of the
\* prefix and the name is empty; every other input gets a label, a sanitized
\* form of more than 63 characters with a hyphen in the 63rd place included.
C40_ErrorOnlyWhenSanitizedEmpty ==
  \A c \in NamerCalled :
    rnCalls[c].fn = "DNS1123Label"
    => /\ ~rnCalls[c].out.panic
       /\ (rnCalls[c].out.err # NoErr)
            <=> (sanitizedLabel(rnCalls[c].prefix, rnCalls[c].name) = <<>>)

====
